---------------------------- MODULE Spec2Model ----------------------------
(***************************************************************************)
(* Research Navigator Agent: the reason -> route -> act -> reason loop of  *)
(* src/agent (a LangGraph state machine), the LLM client's reasoning       *)
(* parser and the retrieval index behind search_internal.                  *)
(*                                                                         *)
(* Python strings are modelled as sequences of words (a word is an atom),  *)
(* so "" is << >>, concatenation is \o, and `not s` is s = << >>.          *)
(* Python None is the word "None" where a path is expected; records that   *)
(* may be None carry a sentinel value instead.                             *)
(***************************************************************************)
EXTENDS Integers, Sequences, FiniteSets, TLC

VARIABLES
    state,              \* the AgentState threaded through the graph
    pc,                 \* node the graph executor is about to run
    exc,                \* exception that escaped graph.invoke (NoExc if none)
    _llm_client,        \* llm_client._llm_client singleton
    _verbose_mode,      \* api_logger._verbose_mode
    _vectorstore_cache, \* rag_search._vectorstore_cache
    _cache_kb_path,     \* rag_search._cache_kb_path
    disk_index,         \* the persisted index under settings.vectorstore_dir
    embedding_model,    \* settings.embedding_model of this process
    response_text,      \* the text handed to _parse_reasoning_response
    parsed,             \* what _parse_reasoning_response returned for it
    reason_calls,       \* history: completed reason_node invocations
    action_calls,       \* history: completed invocations of each action node
    finish_calls,       \* history: completed finish_node invocations
    llm_requests,       \* history: chat.completions.create requests sent
    last_call           \* history: what the external call of the last node did

vars == <<state, pc, exc, _llm_client, _verbose_mode, _vectorstore_cache,
          _cache_kb_path, disk_index, embedding_model, response_text, parsed,
          reason_calls, action_calls, finish_calls, llm_requests, last_call>>

-----------------------------------------------------------------------------
(* Bounds of the model *)

MaxStepsBound == 2

\* reason_node is never run more often than this in the model
MaxReasonCalls == MaxStepsBound + 2

-----------------------------------------------------------------------------
(* Values *)

None == "None"

NoExc == << >>

Min(a, b) == IF a < b THEN a ELSE b

\* s[:n] of a Python list
Take(s, n) == SubSeq(s, 1, Min(n, Len(s)))

\* the knowledge-base paths a run may be given, and what is at each path
KbPaths == {"kbA", "kbMissing", "kbFile", "kbEmpty"}

CorpusKind(kb) ==
    CASE kb = "kbA" -> "docs"
      [] kb = "kbB" -> "docs"
      [] kb = "kbFile" -> "file"
      [] kb = "kbEmpty" -> "empty"
      [] OTHER -> "missing"

\* the chunks of the documents under a corpus (page_content of each chunk)
ChunksOf(kb) ==
    CASE kb = "kbA" -> << <<"A1">>, <<"A2">>, <<"A3">> >>
      [] kb = "kbB" -> << <<"B1">>, <<"B2">>, <<"B3">> >>
      [] OTHER -> << >>

\* settings.top_k_results: how many results a search asks for
top_k_results == 5

\* the embedding models a process may be configured with (EMBEDDING_MODEL):
\* the default of settings.embedding_model and another model whose vectors
\* have the same dimension, so that FAISS accepts its query vectors
DefaultEmbeddingModel == "text-embedding-3-small"

EmbeddingModels == {DefaultEmbeddingModel, "text-embedding-ada-002"}

\* an index (FAISS vector store): the corpus whose chunks it holds, the
\* embedding model its vectors were computed with (model) and the model of
\* the embedding function attached to it, which embeds the queries
\* (query_model)
NoIndex ==
    [built_from |-> None, loadable |-> FALSE, model |-> None, query_model |-> None]

IndexWith(kb, model) ==
    [built_from |-> kb, loadable |-> TRUE, model |-> model, query_model |-> model]

Index(kb) == IndexWith(kb, DefaultEmbeddingModel)

\* a persisted index whose files cannot be read back
Unloadable(index) == [index EXCEPT !.loadable = FALSE]


-----------------------------------------------------------------------------
(* Strings: words, and the str methods the parser uses *)

\* str.lower() on a word
LowerWord(w) ==
    CASE w = "SEARCH_INTERNAL" -> "search_internal"
      [] w = "WEB_SEARCH" -> "web_search"
      [] w = "Finish" -> "finish"
      [] w = "THOUGHT:" -> "thought:"
      [] w = "ACTION:" -> "action:"
      [] w = "ACTION_INPUT:" -> "action_input:"
      [] OTHER -> w

Lower(s) == [i \in 1..Len(s) |-> LowerWord(s[i])]

\* needle in word, for the needles the parser looks for
WordContains(w, needle) ==
    CASE needle = "internal" -> w \in {"internal", "search_internal", "internally"}
      [] needle = "search_internal" -> w = "search_internal"
      [] needle = "web" -> w \in {"web", "web_search", "website"}
      [] needle = "web_search" -> w = "web_search"
      [] needle = "finish" -> w \in {"finish", "finished"}
      [] OTHER -> w = needle

\* needle in s
Contains(s, needle) == \E i \in 1..Len(s) : WordContains(s[i], needle)

\* s.startswith(label), label a single word
StartsWith(s, label) == Len(s) >= 1 /\ s[1] = label

\* a replace that leaves the label in the line
KeepLabel(s, label) == s

\* s.replace(label, ""): every occurrence of the label is removed
RECURSIVE Remove(_, _)
Remove(s, label) ==
    IF s = << >> THEN << >>
    ELSE IF Head(s) = label THEN Remove(Tail(s), label)
    ELSE <<Head(s)>> \o Remove(Tail(s), label)

DefaultThought == <<"Analyzing the query and deciding next steps.">>

DefaultActionInput == <<"No specific input needed">>

\* the loop body taking whatever follows ACTION: as the action
ParseLine_any_action(acc, line) ==
    IF StartsWith(line, "THOUGHT:") THEN
        [acc EXCEPT !.thought = Remove(line, "THOUGHT:")]
    ELSE IF StartsWith(line, "ACTION:") THEN
        LET action_text == Lower(Remove(line, "ACTION:")) IN
        IF action_text = << >> THEN acc
        ELSE [acc EXCEPT !.action = action_text[1]]
    ELSE IF StartsWith(line, "ACTION_INPUT:") \/ StartsWith(line, "ACTION INPUT:") THEN
        [acc EXCEPT !.action_input =
            Remove(Remove(line, "ACTION_INPUT:"), "ACTION INPUT:")]
    ELSE acc

\* the loop body resolving the action by the full action names only
ParseLine_full_names(acc, line) ==
    IF StartsWith(line, "THOUGHT:") THEN
        [acc EXCEPT !.thought = Remove(line, "THOUGHT:")]
    ELSE IF StartsWith(line, "ACTION:") THEN
        LET action_text == Lower(Remove(line, "ACTION:")) IN
        IF Contains(action_text, "search_internal")
        THEN [acc EXCEPT !.action = "search_internal"]
        ELSE IF Contains(action_text, "web_search")
        THEN [acc EXCEPT !.action = "web_search"]
        ELSE IF Contains(action_text, "finish")
        THEN [acc EXCEPT !.action = "finish"]
        ELSE acc
    ELSE IF StartsWith(line, "ACTION_INPUT:") \/ StartsWith(line, "ACTION INPUT:") THEN
        [acc EXCEPT !.action_input =
            Remove(Remove(line, "ACTION_INPUT:"), "ACTION INPUT:")]
    ELSE acc

\* the body of the for loop of _parse_reasoning_response for one line,
\* acc = [thought, action, action_input] so far
ParseLine(acc, line) ==
    IF StartsWith(line, "THOUGHT:") THEN
        [acc EXCEPT !.thought = Remove(line, "THOUGHT:")]
    ELSE IF StartsWith(line, "ACTION:") THEN
        LET action_text == Lower(Remove(line, "ACTION:")) IN
        IF Contains(action_text, "internal") \/ Contains(action_text, "search_internal")
        THEN [acc EXCEPT !.action = "search_internal"]
        ELSE IF Contains(action_text, "web") \/ Contains(action_text, "web_search")
        THEN [acc EXCEPT !.action = "web_search"]
        ELSE IF Contains(action_text, "finish")
        THEN [acc EXCEPT !.action = "finish"]
        ELSE acc
    ELSE IF StartsWith(line, "ACTION_INPUT:") \/ StartsWith(line, "ACTION INPUT:") THEN
        [acc EXCEPT !.action_input =
            Remove(Remove(line, "ACTION_INPUT:"), "ACTION INPUT:")]
    ELSE acc

RECURSIVE ParseLines(_, _)
ParseLines(acc, lines) ==
    IF lines = << >> THEN acc
    ELSE ParseLines(ParseLine(acc, Head(lines)), Tail(lines))

\* no response has been parsed
NotParsed == [thought |-> << >>, action |-> None, action_input |-> << >>]

\* LLMClient._parse_reasoning_response: response is the list of its lines
\* (response.strip().split("\n")), each line a string
_parse_reasoning_response(response) ==
    LET acc == ParseLines([thought |-> << >>, action |-> "finish",
                           action_input |-> << >>], response)
    IN  [thought |-> IF acc.thought = << >> THEN DefaultThought ELSE acc.thought,
         action |-> acc.action,
         action_input |-> IF acc.action_input = << >> THEN DefaultActionInput
                          ELSE acc.action_input]

-----------------------------------------------------------------------------
(* The LLM client *)

\* What the provider does with one chat.completions.create request:
\* it raises (timeout, transport error), or returns a message whose content
\* is None or a text.
LLMRaises == {[kind |-> "raise", error |-> <<"Request timed out.">>, content |-> << >>],
              [kind |-> "raise", error |-> <<"Connection error.">>, content |-> << >>]}

LLMNone == [kind |-> "none", error |-> << >>, content |-> << >>]

LLMText(content) == [kind |-> "text", error |-> << >>, content |-> content]

\* get_llm_client: the singleton is created on first use; OpenAI(...) may raise
get_llm_client(client, create_ok) ==
    IF client = None
    THEN IF create_ok
         THEN [raised |-> FALSE, error |-> << >>, client |-> "LLMClient"]
         ELSE [raised |-> TRUE, error |-> <<"The api_key client option must be set">>,
               client |-> None]
    ELSE [raised |-> FALSE, error |-> << >>, client |-> client]

\* LLMClient.generate: one request; log_llm_response reads len(response_text)
\* in verbose mode only
generate(outcome, verbose) ==
    IF outcome.kind = "raise"
    THEN [raised |-> TRUE, error |-> outcome.error, is_none |-> FALSE, text |-> << >>]
    ELSE IF outcome.kind = "none"
    THEN IF verbose
         THEN [raised |-> TRUE, error |-> <<"object of type 'NoneType' has no len()">>,
               is_none |-> FALSE, text |-> << >>]
         ELSE [raised |-> FALSE, error |-> << >>, is_none |-> TRUE, text |-> << >>]
    ELSE [raised |-> FALSE, error |-> << >>, is_none |-> FALSE, text |-> outcome.content]

\* LLMClient.generate_reasoning: generate, then parse; None.strip() raises
generate_reasoning(outcome, verbose) ==
    LET r == generate(outcome, verbose) IN
    IF r.raised THEN [raised |-> TRUE, error |-> r.error, decision |-> << >>]
    ELSE IF r.is_none
    THEN [raised |-> TRUE,
          error |-> <<"'NoneType' object has no attribute 'strip'">>,
          decision |-> << >>]
    ELSE [raised |-> FALSE, error |-> << >>,
          decision |-> <<_parse_reasoning_response(r.text)>>]

\* LLMClient.generate_synthesis: generate, and the response text as it is
generate_synthesis(outcome, verbose) == generate(outcome, verbose)

-----------------------------------------------------------------------------
(* The retrieval index *)

\* load_documents: the ValueError it raises, << >> if it returns documents
load_documents(kb_path) ==
    CASE CorpusKind(kb_path) = "missing" -> <<"Knowledge base path does not exist: ", kb_path>>
      [] CorpusKind(kb_path) = "file" -> <<"Knowledge base path is not a directory: ", kb_path>>
      [] CorpusKind(kb_path) = "empty" -> <<"No documents found in ", kb_path>>
      [] OTHER -> << >>

\* load_vectorstore: FAISS.load_local of the persisted index, with an
\* embedding function of the model configured now
load_vectorstore(disk) ==
    IF disk.built_from = None
    THEN [raised |-> TRUE, error |-> <<"Vector store directory does not exist">>,
          index |-> NoIndex]
    ELSE IF ~disk.loadable
    THEN [raised |-> TRUE, error |-> <<"could not read index.faiss">>, index |-> NoIndex]
    ELSE [raised |-> FALSE, error |-> << >>,
          index |-> [disk EXCEPT !.query_model = embedding_model]]

\* build_vectorstore: embeds every chunk, builds the index and saves it to
\* output_dir
build_vectorstore(kb_path, api_ok) ==
    IF ~api_ok
    THEN [raised |-> TRUE, error |-> <<"embedding request failed">>, index |-> NoIndex]
    ELSE [raised |-> FALSE, error |-> << >>,
          index |-> IndexWith(kb_path, embedding_model)]

\* get_or_create_vectorstore that never looks at the persisted index
get_or_create_vectorstore_always_build(kb_path, force_rebuild, disk, api_ok) ==
    LET docs_error == load_documents(kb_path)
        built == build_vectorstore(kb_path, api_ok)
        load_failed == FALSE
    IN  IF docs_error # << >>
        THEN [raised |-> TRUE, error |-> docs_error, index |-> NoIndex,
              disk |-> disk, built |-> FALSE, how |-> "raised",
              load_failed |-> load_failed]
        ELSE IF built.raised
        THEN [raised |-> TRUE, error |-> built.error, index |-> NoIndex,
              disk |-> disk, built |-> FALSE, how |-> "raised",
              load_failed |-> load_failed]
        ELSE [raised |-> FALSE, error |-> << >>, index |-> built.index,
              disk |-> built.index, built |-> TRUE, how |-> "built",
              load_failed |-> load_failed]

\* get_or_create_vectorstore that loads a persisted index whether or not a
\* rebuild is forced, and lets the error of a failed load escape
get_or_create_vectorstore_load_first(kb_path, force_rebuild, disk, api_ok) ==
    LET loaded == load_vectorstore(disk)
        docs_error == load_documents(kb_path)
        built == build_vectorstore(kb_path, api_ok)
        load_failed == disk.built_from # None
    IN  IF disk.built_from # None /\ ~loaded.raised
        THEN [raised |-> FALSE, error |-> << >>, index |-> loaded.index,
              disk |-> disk, built |-> FALSE, how |-> "loaded",
              load_failed |-> FALSE]
        ELSE IF disk.built_from # None
        THEN [raised |-> TRUE, error |-> loaded.error, index |-> NoIndex,
              disk |-> disk, built |-> FALSE, how |-> "raised",
              load_failed |-> load_failed]
        ELSE IF docs_error # << >>
        THEN [raised |-> TRUE, error |-> docs_error, index |-> NoIndex,
              disk |-> disk, built |-> FALSE, how |-> "raised",
              load_failed |-> load_failed]
        ELSE IF built.raised
        THEN [raised |-> TRUE, error |-> built.error, index |-> NoIndex,
              disk |-> disk, built |-> FALSE, how |-> "raised",
              load_failed |-> load_failed]
        ELSE [raised |-> FALSE, error |-> << >>, index |-> built.index,
              disk |-> built.index, built |-> TRUE, how |-> "built",
              load_failed |-> load_failed]

\* get_or_create_vectorstore with the configured vectorstore_dir
get_or_create_vectorstore(kb_path, force_rebuild, disk, api_ok) ==
    LET loaded == load_vectorstore(disk)
        docs_error == load_documents(kb_path)
        built == build_vectorstore(kb_path, api_ok)
        load_failed == ~force_rebuild /\ disk.built_from # None
    IN  IF ~force_rebuild /\ disk.built_from # None /\ ~loaded.raised
        THEN [raised |-> FALSE, error |-> << >>, index |-> loaded.index,
              disk |-> disk, built |-> FALSE, how |-> "loaded",
              load_failed |-> FALSE]
        ELSE IF docs_error # << >>
        THEN [raised |-> TRUE, error |-> docs_error, index |-> NoIndex,
              disk |-> disk, built |-> FALSE, how |-> "raised",
              load_failed |-> load_failed]
        ELSE IF built.raised
        THEN [raised |-> TRUE, error |-> built.error, index |-> NoIndex,
              disk |-> disk, built |-> FALSE, how |-> "raised",
              load_failed |-> load_failed]
        ELSE [raised |-> FALSE, error |-> << >>, index |-> built.index,
              disk |-> built.index, built |-> TRUE, how |-> "built",
              load_failed |-> load_failed]

\* the end of initialize_vectorstore: r is what get_or_create_vectorstore
\* did; unless it raised, both globals are assigned
CacheIt(r, kb_path, g) ==
    IF r.raised
    THEN [raised |-> TRUE, error |-> r.error, index |-> NoIndex, g |-> g,
          how |-> "raised", load_failed |-> r.load_failed]
    ELSE [raised |-> FALSE, error |-> << >>, index |-> r.index,
          g |-> [cache |-> r.index, cache_kb |-> kb_path, disk |-> r.disk],
          how |-> r.how, load_failed |-> r.load_failed]

\* initialize_vectorstore without the early return of the cached index
initialize_vectorstore_no_cache(kb_path, force_rebuild, g, api_ok) ==
    CacheIt(get_or_create_vectorstore(kb_path, force_rebuild, g.disk, api_ok),
            kb_path, g)

\* initialize_vectorstore; g = [cache, cache_kb, disk] are the module globals
\* and the persisted index
initialize_vectorstore(kb_path, force_rebuild, g, api_ok) ==
    IF ~force_rebuild /\ g.cache # NoIndex /\ g.cache_kb = kb_path
    THEN [raised |-> FALSE, error |-> << >>, index |-> g.cache, g |-> g,
          how |-> "cached", load_failed |-> FALSE]
    ELSE CacheIt(get_or_create_vectorstore(kb_path, force_rebuild, g.disk, api_ok),
                 kb_path, g)

\* the similarity search of search_internal: init is what obtaining the
\* vector store did
SimilaritySearch(init, g, env) ==
    IF init.raised
    THEN [raised |-> TRUE, error |-> init.error, results |-> << >>,
          g |-> g, how |-> "raised", index |-> NoIndex,
          load_failed |-> init.load_failed]
    ELSE IF ~env.api_ok
    THEN [raised |-> TRUE, error |-> <<"embedding request failed">>,
          results |-> << >>, g |-> init.g, how |-> init.how,
          index |-> init.index, load_failed |-> init.load_failed]
    ELSE [raised |-> FALSE, error |-> << >>,
          results |-> Take(ChunksOf(init.index.built_from), env.hits),
          g |-> init.g, how |-> init.how, index |-> init.index,
          load_failed |-> init.load_failed]

\* search_internal(query, kb_path, top_k): env.api_ok says whether the
\* embedding requests succeed, env.hits how many chunks the similarity
\* search finds
search_internal(kb_path, g, env) ==
    IF g.cache = NoIndex /\ kb_path = None
    THEN [raised |-> TRUE,
          error |-> <<"kb_path must be provided for first search call to initialize vectorstore">>,
          results |-> << >>, g |-> g, how |-> "raised", index |-> NoIndex,
          load_failed |-> FALSE]
    ELSE SimilaritySearch(
             IF kb_path # None
             THEN initialize_vectorstore(kb_path, FALSE, g, env.api_ok)
             ELSE [raised |-> FALSE, error |-> << >>, index |-> g.cache,
                   g |-> g, how |-> "cached", load_failed |-> FALSE],
             g, env)

\* web_search(query, max_results): the provider raises or returns results,
\* each normalised to title, url, content, score, published_date
WebResult(n) ==
    [title |-> <<"T", n>>, url |-> <<"U", n>>, content |-> <<"C", n>>,
     score |-> n, published_date |-> None]

\* dict.get(key, default)
Get(d, key, default) == IF key \in DOMAIN d THEN d[key] ELSE default

\* a result as the provider returns it, here without a publication date
ProviderResult(n) ==
    [title |-> <<"T", n>>, url |-> <<"U", n>>, content |-> <<"C", n>>,
     score |-> n]

\* the results the provider finds for a query, best first
FoundResults(n) == [i \in 1..n |-> ProviderResult(i)]

\* client.search(**search_params): the provider answers with the first
\* max_results of the results it found
TavilySearch(search_params, found) ==
    [results |-> Take(found, search_params.max_results)]

\* the dict web_search builds from one raw result, with Untitled for a
\* missing title
NormaliseResult_untitled(result) ==
    [title |-> Get(result, "title", <<"Untitled">>),
     url |-> Get(result, "url", << >>),
     content |-> Get(result, "content", << >>),
     score |-> Get(result, "score", None),
     published_date |-> Get(result, "published_date", None)]

\* the dict web_search builds from one raw result
NormaliseResult(result) ==
    [title |-> Get(result, "title", << >>),
     url |-> Get(result, "url", << >>),
     content |-> Get(result, "content", << >>),
     score |-> Get(result, "score", None),
     published_date |-> Get(result, "published_date", None)]

\* the for loop over raw_results
NormaliseAll(raw_results) ==
    [i \in 1..Len(raw_results) |-> NormaliseResult(raw_results[i])]

\* web_search: env.raises says whether the key is missing or the request
\* fails, env.found what the provider finds
web_search(max_results, env) ==
    IF env.raises
    THEN [raised |-> TRUE, error |-> <<"Tavily request failed">>, results |-> << >>]
    ELSE [raised |-> FALSE, error |-> << >>,
          results |-> NormaliseAll(
              TavilySearch([max_results |-> max_results], env.found).results)]

-----------------------------------------------------------------------------
(* The agent state and the graph nodes *)

NoAnswer == [kind |-> "None"]

\* create_initial_state
create_initial_state(query, max_steps, kb_path) ==
    [query |-> query,
     kb_path |-> kb_path,
     history |-> None,
     scratchpad |-> << >>,
     tool_calls |-> << >>,
     internal_context |-> << >>,
     external_context |-> << >>,
     step |-> 0,
     max_steps |-> max_steps,
     final_answer |-> NoAnswer]

Last(seq) == seq[Len(seq)]

\* reason_node that records a decision only when the reasoning call returned
reason_node_silent_on_error(s, client, outcome, verbose) ==
    LET r == IF client.raised
             THEN [raised |-> TRUE, error |-> client.error, decision |-> << >>]
             ELSE generate_reasoning(outcome, verbose)
    IN  IF ~r.raised
        THEN [s EXCEPT !.scratchpad = Append(@,
                  [step |-> s.step,
                   thought |-> r.decision[1].thought,
                   action |-> r.decision[1].action,
                   action_input |-> r.decision[1].action_input])]
        ELSE s

\* reason_node numbering its decision records from 1
reason_node_numbers_from_one(s, client, outcome, verbose) ==
    LET r == IF client.raised
             THEN [raised |-> TRUE, error |-> client.error, decision |-> << >>]
             ELSE generate_reasoning(outcome, verbose)
    IN  IF ~r.raised
        THEN [s EXCEPT !.scratchpad = Append(@,
                  [step |-> s.step + 1,
                   thought |-> r.decision[1].thought,
                   action |-> r.decision[1].action,
                   action_input |-> r.decision[1].action_input])]
        ELSE [s EXCEPT !.scratchpad = Append(@,
                  [step |-> s.step + 1,
                   thought |-> <<"Error during reasoning: ">> \o r.error,
                   action |-> "finish",
                   action_input |-> s.query])]

\* reason_node: client is what get_llm_client did, outcome what the provider
\* did with the request; every exception is caught
reason_node(s, client, outcome, verbose) ==
    LET r == IF client.raised
             THEN [raised |-> TRUE, error |-> client.error, decision |-> << >>]
             ELSE generate_reasoning(outcome, verbose)
    IN  IF ~r.raised
        THEN [s EXCEPT !.scratchpad = Append(@,
                  [step |-> s.step,
                   thought |-> r.decision[1].thought,
                   action |-> r.decision[1].action,
                   action_input |-> r.decision[1].action_input])]
        ELSE [s EXCEPT !.scratchpad = Append(@,
                  [step |-> s.step,
                   thought |-> <<"Error during reasoning: ">> \o r.error,
                   action |-> "finish",
                   action_input |-> s.query])]

\* dict.get("action", "finish") of a decision record
GetAction(record) ==
    IF "action" \in DOMAIN record THEN record.action ELSE "finish"

\* route_action reading the first decision of the scratchpad instead of the
\* latest one
route_action_first_decision(s) ==
    IF s.step >= s.max_steps THEN "finish"
    ELSE IF s.scratchpad # << >>
    THEN LET last_action == GetAction(s.scratchpad[1]) IN
         IF last_action = "search_internal" THEN "act_internal"
         ELSE IF last_action = "web_search" THEN "act_external"
         ELSE "finish"
    ELSE "finish"

\* route_action without the step-budget check
route_action_no_budget(s) ==
    IF s.scratchpad # << >>
    THEN LET last_action == GetAction(Last(s.scratchpad)) IN
         IF last_action = "search_internal" THEN "act_internal"
         ELSE IF last_action = "web_search" THEN "act_external"
         ELSE "finish"
    ELSE "finish"

\* route_action: the router of the conditional edge after reason
route_action(s) ==
    IF s.step >= s.max_steps THEN "finish"
    ELSE IF s.scratchpad # << >>
    THEN LET last_action == GetAction(Last(s.scratchpad)) IN
         IF last_action = "search_internal" THEN "act_internal"
         ELSE IF last_action = "web_search" THEN "act_external"
         ELSE "finish"
    ELSE "finish"

\* the search query of an action node that always asks the original query
SearchQuery_original(s) == s.query

\* the search query of an action node: the latest action_input, or the query
SearchQuery(s) ==
    IF s.scratchpad # << >> /\ Last(s.scratchpad).action_input # << >>
    THEN Last(s.scratchpad).action_input
    ELSE s.query

\* act_internal_node without its except branch: the exception propagates
ActInternalReraise(s, g, error) ==
    [state |-> s, g |-> g, exc |-> error, call |-> "raised", error |-> error]

\* the except branch of act_internal_node
ActInternalExcept(s, g, error) ==
    [state |-> [s EXCEPT !.tool_calls = Append(@,
                    [tool |-> "search_internal", input |-> s.query, error |-> error]),
                  !.step = @ + 1],
     g |-> g, exc |-> NoExc, call |-> "raised", error |-> error]

\* act_internal_node without the kb_path guard
act_internal_node_no_guard(s, g, env) ==
    LET r == search_internal(s.kb_path, g, env) IN
    IF r.raised
    THEN ActInternalExcept(s, r.g, r.error)
    ELSE [state |-> [s EXCEPT !.internal_context = @ \o r.results,
                       !.tool_calls = Append(@,
                           [tool |-> "search_internal",
                            input |-> SearchQuery(s),
                            output |-> r.results]),
                       !.step = @ + 1],
          g |-> r.g, exc |-> NoExc, call |-> "ok", error |-> << >>]

\* the items of results that old does not hold yet, in order
NotYetIn(old, results) ==
    SelectSeq(results, LAMBDA x : \A i \in 1..Len(old) : old[i] # x)

\* act_internal_node adding only the chunks it has not gathered before
act_internal_node_dedup(s, g, env) ==
    IF s.kb_path = None
    THEN [state |-> [s EXCEPT !.step = @ + 1], g |-> g, exc |-> NoExc,
          call |-> "skipped", error |-> << >>]
    ELSE LET r == search_internal(s.kb_path, g, env) IN
         IF r.raised
         THEN ActInternalExcept(s, r.g, r.error)
         ELSE [state |-> [s EXCEPT !.internal_context =
                                @ \o NotYetIn(@, r.results),
                            !.tool_calls = Append(@,
                                [tool |-> "search_internal",
                                 input |-> SearchQuery(s),
                                 output |-> r.results]),
                            !.step = @ + 1],
               g |-> r.g, exc |-> NoExc, call |-> "ok", error |-> << >>]

\* act_internal_node
act_internal_node(s, g, env) ==
    IF s.kb_path = None
    THEN [state |-> [s EXCEPT !.step = @ + 1], g |-> g, exc |-> NoExc,
          call |-> "skipped", error |-> << >>]
    ELSE LET r == search_internal(s.kb_path, g, env) IN
         IF r.raised
         THEN ActInternalExcept(s, r.g, r.error)
         ELSE [state |-> [s EXCEPT !.internal_context = @ \o r.results,
                            !.tool_calls = Append(@,
                                [tool |-> "search_internal",
                                 input |-> SearchQuery(s),
                                 output |-> r.results]),
                            !.step = @ + 1],
               g |-> r.g, exc |-> NoExc, call |-> "ok", error |-> << >>]

\* the except branch of act_external_node without the step increment
ActExternalExcept_keeps_step(s, error) ==
    [state |-> [s EXCEPT !.tool_calls = Append(@,
                    [tool |-> "web_search", input |-> s.query, error |-> error])],
     exc |-> NoExc, call |-> "raised", error |-> error]

\* the except branch of act_external_node
ActExternalExcept(s, error) ==
    [state |-> [s EXCEPT !.tool_calls = Append(@,
                    [tool |-> "web_search", input |-> s.query, error |-> error]),
                  !.step = @ + 1],
     exc |-> NoExc, call |-> "raised", error |-> error]

\* act_external_node filing the web results with the internal evidence
act_external_node_files_internal(s, env) ==
    LET r == web_search(top_k_results, env) IN
    IF r.raised
    THEN ActExternalExcept(s, r.error)
    ELSE [state |-> [s EXCEPT !.internal_context = @ \o r.results,
                       !.tool_calls = Append(@,
                           [tool |-> "web_search",
                            input |-> SearchQuery(s),
                            output |-> r.results]),
                       !.step = @ + 1],
          exc |-> NoExc, call |-> "ok", error |-> << >>]

\* act_external_node
act_external_node(s, env) ==
    LET r == web_search(top_k_results, env) IN
    IF r.raised
    THEN ActExternalExcept(s, r.error)
    ELSE [state |-> [s EXCEPT !.external_context = @ \o r.results,
                       !.tool_calls = Append(@,
                           [tool |-> "web_search",
                            input |-> SearchQuery(s),
                            output |-> r.results]),
                       !.step = @ + 1],
          exc |-> NoExc, call |-> "ok", error |-> << >>]

\* the previews of the fallback report: the first FallbackPreviews items of
\* an evidence list (the chunks of the model are shorter than 100 characters)
FallbackPreviews == 5

\* the internal previews without the [:5] slice
InternalPreviewsAll(internal_sources) ==
    IF internal_sources # << >>
    THEN [i \in 1..Len(internal_sources) |->
             <<"- ">> \o internal_sources[i] \o <<"...">>]
    ELSE << <<"- No internal sources used">> >>

InternalPreviews(internal_sources) ==
    IF internal_sources # << >>
    THEN [i \in 1..Len(Take(internal_sources, FallbackPreviews)) |->
             <<"- ">> \o internal_sources[i] \o <<"...">>]
    ELSE << <<"- No internal sources used">> >>

ExternalPreviews(external_sources) ==
    IF external_sources # << >>
    THEN [i \in 1..Len(Take(external_sources, FallbackPreviews)) |->
             <<"- [">> \o external_sources[i].title \o <<"](">>
                 \o external_sources[i].url \o <<")">>]
    ELSE << <<"- No external sources used">> >>

\* the templated report counting the recorded tool calls as the steps taken
FallbackAnswer_counts_tool_calls(s, error) ==
    [kind |-> "fallback",
     query |-> s.query,
     num_steps |-> Len(s.tool_calls),
     num_internal |-> Len(s.internal_context),
     num_external |-> Len(s.external_context),
     internal |-> InternalPreviews(s.internal_context),
     external |-> ExternalPreviews(s.external_context),
     error |-> error]

\* the templated report of finish_node's except branch
FallbackAnswer(s, error) ==
    [kind |-> "fallback",
     query |-> s.query,
     num_steps |-> s.step,
     num_internal |-> Len(s.internal_context),
     num_external |-> Len(s.external_context),
     internal |-> InternalPreviews(s.internal_context),
     external |-> ExternalPreviews(s.external_context),
     error |-> error]

\* finish_node
finish_node(s, client, outcome, verbose) ==
    LET r == IF client.raised
             THEN [raised |-> TRUE, error |-> client.error, is_none |-> FALSE,
                   text |-> << >>]
             ELSE generate_synthesis(outcome, verbose)
    IN  IF r.raised
        THEN [s EXCEPT !.final_answer = FallbackAnswer(s, r.error)]
        ELSE IF r.is_none
        THEN [s EXCEPT !.final_answer = NoAnswer]
        ELSE [s EXCEPT !.final_answer = [kind |-> "text", text |-> r.text]]

-----------------------------------------------------------------------------
(* What the environment may do *)

\* texts the reasoning model may answer with, as lists of lines
ReasoningContents ==
    { << <<"THOUGHT:", "x">>, <<"ACTION:", "search_internal">>, <<"ACTION_INPUT:", "y">> >>,
      << <<"THOUGHT:", "x">>, <<"ACTION:", "finish">>, <<"ACTION_INPUT:", "y">> >>,
      << <<"ACTION:", "web_search">> >>,
      << <<"I", "am", "not", "sure">> >>,
      << >> }

ReasoningOutcomes ==
    LLMRaises \cup {LLMNone} \cup {LLMText(c) : c \in ReasoningContents}

SynthesisOutcomes ==
    LLMRaises \cup {LLMNone} \cup {LLMText(<<"# Research Brief">>), LLMText(<< >>)}

\* how many results a search finds (at most top_k_results)
HitCounts == {0, 3}

InternalEnvs == [api_ok : BOOLEAN, hits : HitCounts]

WebEnvs == [raises : BOOLEAN, found : {FoundResults(n) : n \in HitCounts}]

\* whether creating the client can fail: only when there is none yet
CreateOutcomes == IF _llm_client = None THEN BOOLEAN ELSE {TRUE}

\* what the LLM call of a node did, for the history variable last_call
LLMCallOutcome(client, outcome) ==
    IF client.raised THEN "raise_client"
    ELSE IF outcome.kind = "text" /\ outcome.content = << >> THEN "empty"
    ELSE outcome.kind

\* the exception the try block of a node caught (str(e)), << >> if none:
\* r is what the call made after get_llm_client did
CaughtError(client, r) == IF client.raised THEN client.error ELSE r.error

Globals == [cache |-> _vectorstore_cache, cache_kb |-> _cache_kb_path,
            disk |-> disk_index]

-----------------------------------------------------------------------------
(* The run: run_agent builds the initial state and invokes the graph *)

Init ==
    /\ \E max_steps \in 0..MaxStepsBound, kb_path \in KbPaths \cup {None} :
           state = create_initial_state(<<"q">>, max_steps, kb_path)
    /\ pc = "reason"
    /\ exc = NoExc
    /\ _llm_client = None
    /\ _verbose_mode \in BOOLEAN
    /\ \E cached \in {NoIndex, Index("kbA")} :
           /\ _vectorstore_cache = cached
           /\ _cache_kb_path = cached.built_from
    /\ disk_index \in {NoIndex, Index("kbA"), Index("kbB"),
                       Unloadable(Index("kbA"))}
    /\ embedding_model = DefaultEmbeddingModel
    /\ response_text = << >>
    /\ parsed = NotParsed
    /\ reason_calls = 0
    /\ action_calls = [act_internal |-> 0, act_external |-> 0]
    /\ finish_calls = 0
    /\ llm_requests = 0
    /\ last_call = [node |-> "START", outcome |-> "none", error |-> << >>]

\* the reason node sending its request a second time when the first raised
ReasonNode_retries ==
    /\ pc = "reason"
    /\ reason_calls < MaxReasonCalls
    /\ \E create_ok \in CreateOutcomes, outcome \in ReasoningOutcomes :
          LET client == get_llm_client(_llm_client, create_ok) IN
          /\ state' = reason_node(state, client, outcome, _verbose_mode)
          /\ _llm_client' = client.client
          /\ llm_requests' = IF client.raised THEN llm_requests
                              ELSE IF outcome.kind = "raise" THEN llm_requests + 2
                              ELSE llm_requests + 1
          /\ last_call' = [node |-> "reason",
                           outcome |-> LLMCallOutcome(client, outcome),
                           error |-> CaughtError(client,
                               generate_reasoning(outcome, _verbose_mode))]
    /\ reason_calls' = reason_calls + 1
    /\ pc' = "route"
    /\ UNCHANGED <<embedding_model, response_text, parsed>>
    /\ UNCHANGED <<exc, _verbose_mode, _vectorstore_cache, _cache_kb_path,
                   disk_index, action_calls, finish_calls>>

ReasonNode ==
    /\ pc = "reason"
    /\ reason_calls < MaxReasonCalls
    /\ \E create_ok \in CreateOutcomes, outcome \in ReasoningOutcomes :
          LET client == get_llm_client(_llm_client, create_ok) IN
          /\ state' = reason_node(state, client, outcome, _verbose_mode)
          /\ _llm_client' = client.client
          /\ llm_requests' = IF client.raised THEN llm_requests ELSE llm_requests + 1
          /\ last_call' = [node |-> "reason",
                           outcome |-> LLMCallOutcome(client, outcome),
                           error |-> CaughtError(client,
                               generate_reasoning(outcome, _verbose_mode))]
    /\ reason_calls' = reason_calls + 1
    /\ pc' = "route"
    /\ UNCHANGED <<embedding_model, response_text, parsed>>
    /\ UNCHANGED <<exc, _verbose_mode, _vectorstore_cache, _cache_kb_path,
                   disk_index, action_calls, finish_calls>>

Route ==
    /\ pc = "route"
    /\ pc' = route_action(state)
    /\ UNCHANGED <<embedding_model, response_text, parsed>>
    /\ UNCHANGED <<state, exc, _llm_client, _verbose_mode, _vectorstore_cache,
                   _cache_kb_path, disk_index, reason_calls, action_calls,
                   finish_calls, llm_requests, last_call>>

ActInternalNode ==
    /\ pc = "act_internal"
    /\ \E env \in InternalEnvs :
          LET r == act_internal_node(state, Globals, env) IN
          /\ state' = r.state
          /\ _vectorstore_cache' = r.g.cache
          /\ _cache_kb_path' = r.g.cache_kb
          /\ disk_index' = r.g.disk
          /\ exc' = r.exc
          /\ pc' = IF r.exc = NoExc THEN "reason" ELSE "RAISED"
          /\ last_call' = [node |-> "act_internal", outcome |-> r.call,
                           error |-> r.error,
                           query |-> IF r.call = "skipped" THEN None
                                     ELSE SearchQuery(state)]
    /\ action_calls' = [action_calls EXCEPT !.act_internal = @ + 1]
    /\ UNCHANGED <<embedding_model, response_text, parsed>>
    /\ UNCHANGED <<_llm_client, _verbose_mode, reason_calls, finish_calls,
                   llm_requests>>

ActExternalNode ==
    /\ pc = "act_external"
    /\ \E env \in WebEnvs :
          LET r == act_external_node(state, env) IN
          /\ state' = r.state
          /\ exc' = r.exc
          /\ pc' = IF r.exc = NoExc THEN "reason" ELSE "RAISED"
          /\ last_call' = [node |-> "act_external", outcome |-> r.call,
                           error |-> r.error, query |-> SearchQuery(state)]
    /\ action_calls' = [action_calls EXCEPT !.act_external = @ + 1]
    /\ UNCHANGED <<embedding_model, response_text, parsed>>
    /\ UNCHANGED <<_llm_client, _verbose_mode, _vectorstore_cache,
                   _cache_kb_path, disk_index, reason_calls, finish_calls,
                   llm_requests>>

\* the finish node with an edge back to the reason node instead of END
FinishNode_back_to_reason ==
    /\ pc = "finish"
    /\ \E create_ok \in CreateOutcomes, outcome \in SynthesisOutcomes :
          LET client == get_llm_client(_llm_client, create_ok) IN
          /\ state' = finish_node(state, client, outcome, _verbose_mode)
          /\ _llm_client' = client.client
          /\ llm_requests' = IF client.raised THEN llm_requests ELSE llm_requests + 1
          /\ last_call' = [node |-> "finish",
                           outcome |-> LLMCallOutcome(client, outcome),
                           error |-> CaughtError(client,
                               generate_synthesis(outcome, _verbose_mode))]
    /\ finish_calls' = finish_calls + 1
    /\ pc' = "reason"
    /\ UNCHANGED <<embedding_model, response_text, parsed>>
    /\ UNCHANGED <<exc, _verbose_mode, _vectorstore_cache, _cache_kb_path,
                   disk_index, reason_calls, action_calls>>

FinishNode ==
    /\ pc = "finish"
    /\ \E create_ok \in CreateOutcomes, outcome \in SynthesisOutcomes :
          LET client == get_llm_client(_llm_client, create_ok) IN
          /\ state' = finish_node(state, client, outcome, _verbose_mode)
          /\ _llm_client' = client.client
          /\ llm_requests' = IF client.raised THEN llm_requests ELSE llm_requests + 1
          /\ last_call' = [node |-> "finish",
                           outcome |-> LLMCallOutcome(client, outcome),
                           error |-> CaughtError(client,
                               generate_synthesis(outcome, _verbose_mode))]
    /\ finish_calls' = finish_calls + 1
    /\ pc' = "END"
    /\ UNCHANGED <<embedding_model, response_text, parsed>>
    /\ UNCHANGED <<exc, _verbose_mode, _vectorstore_cache, _cache_kb_path,
                   disk_index, reason_calls, action_calls>>

Next ==
    \/ ReasonNode
    \/ Route
    \/ ActInternalNode
    \/ ActExternalNode
    \/ FinishNode

Spec == Init /\ [][Next]_vars

\* the graph executor runs the next node as long as there is one
FairSpec == Spec /\ WF_vars(Next)

-----------------------------------------------------------------------------
(* Properties of the control loop *)

ActionNodes == {"act_internal", "act_external"}

\* C1: for every max_steps >= 0 and whatever the LLM decides and the tools
\* do, a run reaches finish_node and ends, after at most max_steps + 1
\* invocations of reason_node.
C1_TerminatesWithinBudget ==
    /\ [](reason_calls <= state.max_steps + 1)
    /\ <>(pc = "END" /\ finish_calls = 1 /\ reason_calls <= state.max_steps + 1)

\* a run that used the whole budget: max_steps actions, max_steps + 1
\* reasoning calls
C1_Witness ==
    /\ pc = "END"
    /\ state.max_steps >= 2
    /\ reason_calls = state.max_steps + 1
    /\ state.step = state.max_steps

\* C2: in a state with step >= max_steps route_action returns finish
\* whatever the latest decision names, so no action node is entered with
\* step >= max_steps.
C2_BudgetForcesFinish ==
    /\ (pc = "route" /\ state.step >= state.max_steps) => route_action(state) = "finish"
    /\ pc \in ActionNodes => state.step < state.max_steps

\* the router is evaluated with the budget used up and a decision that names
\* a search
C2_Witness ==
    /\ pc = "route"
    /\ state.max_steps >= 1
    /\ state.step >= state.max_steps
    /\ Last(state.scratchpad).action \in {"search_internal", "web_search"}

\* C3: after every action node returns, len(tool_calls) == step, with or
\* without a corpus: tool_calls has one entry per completed action call.
C3_ToolCallsMatchStep ==
    (action_calls.act_internal + action_calls.act_external >= 1) =>
        /\ Len(state.tool_calls) = state.step
        /\ Len(state.tool_calls) = action_calls.act_internal + action_calls.act_external

\* C4: without a corpus route_action never returns act_internal, whatever
\* action the decision names, so act_internal_node is never entered.
C4_NoInternalRouteWithoutCorpus ==
    state.kb_path = None =>
        /\ pc = "route" => route_action(state) # "act_internal"
        /\ pc # "act_internal"

\* C5: without a corpus internal_context is empty in every state of the run.
C5_NoCorpusNoInternalEvidence ==
    state.kb_path = None => state.internal_context = << >>

\* no corpus, an index still cached in the process, and the LLM chose
\* search_internal twice
C5_Witness ==
    /\ state.kb_path = None
    /\ _vectorstore_cache # NoIndex
    /\ action_calls.act_internal >= 2
    /\ last_call.node = "act_internal"

-----------------------------------------------------------------------------
(* Properties of the error handling *)

\* the corpus of the run cannot be loaded and there is no persisted index
\* to load and no cached index for it
InvalidCorpusNoIndex ==
    /\ state.kb_path # None
    /\ load_documents(state.kb_path) # << >>
    /\ ~disk_index.loadable
    /\ ~(_vectorstore_cache # NoIndex /\ _cache_kb_path = state.kb_path)

\* C6 as stated: a run whose corpus is invalid or empty, with no loadable
\* index, is aborted with a hard error before any step is taken, and no run
\* aborts after steps have been taken.
C6_AbortsBeforeAnyStep ==
    /\ (InvalidCorpusNoIndex /\ last_call.node = "act_internal") =>
           (exc # NoExc /\ state.step = 0)
    /\ exc # NoExc => state.step = 0

\* C6 (amended): the index-build error of an invalid or empty corpus aborts
\* no run. act_internal_node catches the ValueError of load_documents,
\* records it as an error entry of tool_calls, leaves internal_context empty
\* and adds 1 to step; no exception escapes the graph in any state.
C6_IndexBuildErrorAbsorbed ==
    /\ exc = NoExc
    /\ pc # "RAISED"
    /\ (InvalidCorpusNoIndex /\ last_call.node = "act_internal") =>
           /\ last_call.outcome = "raised"
           /\ state.step >= 1
           /\ "error" \in DOMAIN Last(state.tool_calls)
           /\ Last(state.tool_calls).error = load_documents(state.kb_path)
           /\ state.internal_context = << >>

\* a run on an invalid corpus that searched it and still ended in finish_node
C6_Witness ==
    /\ InvalidCorpusNoIndex
    /\ action_calls.act_internal >= 1
    /\ state.step >= 1
    /\ pc = "END"

\* final_answer holds a report: the fallback report or a non-empty text
Populated(final_answer) ==
    \/ final_answer.kind = "fallback"
    \/ final_answer.kind = "text" /\ final_answer.text # << >>

\* C7: every run that returns has final_answer populated with a report,
\* whether the synthesis call returns text, returns empty or None content,
\* or raises.
C7_FinalReportPopulated ==
    pc = "END" => Populated(state.final_answer)

\* the entries of tool_calls for a tool that record an error
ErrorEntries(tool_calls, tool) ==
    {i \in 1..Len(tool_calls) :
        tool_calls[i].tool = tool /\ "error" \in DOMAIN tool_calls[i]}

ToolEntries(tool_calls, tool) ==
    {i \in 1..Len(tool_calls) : tool_calls[i].tool = tool}

\* an action node whose call raised let nothing escape, appended one error
\* entry, left the evidence alone and added 1 to step
ActionFailureAbsorbed ==
    (pc \in ActionNodes /\ last_call'.outcome = "raised") =>
        /\ exc' = NoExc
        /\ Len(state'.tool_calls) = Len(state.tool_calls) + 1
        /\ SubSeq(state'.tool_calls, 1, Len(state.tool_calls)) = state.tool_calls
        /\ "error" \in DOMAIN Last(state'.tool_calls)
        /\ state'.internal_context = state.internal_context
        /\ state'.external_context = state.external_context
        /\ state'.step = state.step + 1

\* a run in which every web search raised ends in finish_node with one
\* error entry per attempted call and no external evidence
ProviderAlwaysRaises ==
    /\ action_calls.act_external >= 1
    /\ ErrorEntries(state.tool_calls, "web_search") = ToolEntries(state.tool_calls, "web_search")

ProviderFailureAbsorbed ==
    (pc = "END" /\ ProviderAlwaysRaises) =>
        /\ Cardinality(ErrorEntries(state.tool_calls, "web_search"))
               = action_calls.act_external
        /\ state.external_context = << >>
        /\ finish_calls = 1

\* C8: an action node whose retrieval or web-search call raises lets no
\* exception escape, appends exactly one error entry, leaves both evidence
\* lists unchanged and adds 1 to step; if the web provider raises on every
\* call, tool_calls has one error entry per attempted call,
\* external_context stays empty, and the run reaches synthesis and produces
\* a report.
C8_ActionFailureStillReports ==
    [][/\ ActionFailureAbsorbed
       /\ ProviderFailureAbsorbed'
       /\ (pc' = "END" /\ ProviderAlwaysRaises') => Populated(state'.final_answer)]_vars

\* the reasoning call of the last reason_node failed: it raised, or the
\* content of the response was None or empty
ReasoningCallFailed ==
    /\ last_call.node = "reason"
    /\ last_call.outcome \in {"raise_client", "raise", "none", "empty"}

\* C9: if the reasoning LLM call fails in any way (client creation error,
\* transport error, timeout, empty or None response), reason_node raises
\* nothing, the decision it appends has action finish and a rationale naming
\* the failure, and the router routes to finish.
C9_ReasoningFailureNamed ==
    (pc = "route" /\ ReasoningCallFailed) =>
        /\ exc = NoExc
        /\ Last(state.scratchpad).action = "finish"
        /\ StartsWith(Last(state.scratchpad).thought, "Error during reasoning: ")
        /\ Len(Last(state.scratchpad).thought) >= 2
        /\ route_action(state) = "finish"

\* C10: if the synthesis LLM call raises, finish_node raises nothing and
\* final_answer is the templated report, built from the state with no
\* further LLM request: it holds the query, the failure reason, the step
\* count, both evidence counts and at most 5 previews of each evidence list.
C10_SynthesisFallback ==
    (pc = "END" /\ last_call.error # << >>) =>
        LET fa == state.final_answer IN
        /\ exc = NoExc
        /\ fa.kind = "fallback"
        /\ fa.query = state.query
        /\ fa.error = last_call.error
        /\ fa.num_steps = state.step
        /\ fa.num_internal = Len(state.internal_context)
        /\ fa.num_external = Len(state.external_context)
        /\ Len(fa.internal) <= 5
        /\ Len(fa.external) <= 5
        /\ state.internal_context # << >> =>
               \A i \in 1..Len(fa.internal) :
                   fa.internal[i] = <<"- ">> \o state.internal_context[i] \o <<"...">>
        /\ state.external_context # << >> =>
               \A i \in 1..Len(fa.external) :
                   fa.external[i] = <<"- [">> \o state.external_context[i].title
                       \o <<"](">> \o state.external_context[i].url \o <<")">>
        /\ llm_requests <= reason_calls + finish_calls

\* the synthesis call raised at the end of a run that gathered more than 5
\* internal chunks
C10_Witness ==
    /\ pc = "END"
    /\ last_call.error # << >>
    /\ Len(state.internal_context) > 5
    /\ state.final_answer.kind = "fallback"

\* C11: in every reachable state of a run step never exceeds max_steps + 1.
\* (The router sends a state with step >= max_steps to finish and every
\* action node adds exactly one, so step in fact never exceeds max_steps.)
C11_StepBounded == state.step <= state.max_steps + 1

\* a run that spent its whole budget: the step counter stands at max_steps
\* after the last action node and at completion
C11_Witness ==
    /\ pc = "END"
    /\ state.max_steps >= 1
    /\ state.step = state.max_steps
    /\ action_calls.act_internal + action_calls.act_external = state.max_steps

-----------------------------------------------------------------------------
(* The router as a function: route_action applied to any agent state *)

\* the longest decision trace handed to the router
MaxTrace == 2

\* decision records: the three parser actions, an action value the router
\* does not know, and a record without an action
RouterRecords ==
    {[step |-> 0, thought |-> <<"x">>, action |-> a, action_input |-> <<"y">>] :
         a \in {"search_internal", "web_search", "finish", "summarize"}}
    \cup {[step |-> 0, thought |-> <<"x">>, action_input |-> <<"y">>]}

RouterTraces ==
    UNION {[1..n -> RouterRecords] : n \in 0..MaxTrace}

\* an agent state as route_action may receive it
RouteInit ==
    /\ \E max_steps \in 0..MaxStepsBound, step \in 0..MaxStepsBound,
          kb_path \in {None, "kbA"}, trace \in RouterTraces :
           /\ step <= max_steps
           /\ state = [create_initial_state(<<"q">>, max_steps, kb_path)
                           EXCEPT !.step = step, !.scratchpad = trace]
    /\ pc = "route"
    /\ exc = NoExc
    /\ _llm_client = None
    /\ _verbose_mode = FALSE
    /\ _vectorstore_cache = NoIndex
    /\ _cache_kb_path = None
    /\ disk_index = NoIndex
    /\ embedding_model = DefaultEmbeddingModel
    /\ response_text = << >>
    /\ parsed = NotParsed
    /\ reason_calls = 0
    /\ action_calls = [act_internal |-> 0, act_external |-> 0]
    /\ finish_calls = 0
    /\ llm_requests = 0
    /\ last_call = [node |-> "START", outcome |-> "none", error |-> << >>]

RouteSpec == RouteInit /\ [][Route]_vars

\* the action of the most recent decision, None when there is no decision or
\* the record carries no action
LatestAction(s) ==
    IF s.scratchpad = << >> THEN None
    ELSE IF "action" \in DOMAIN Last(s.scratchpad) THEN Last(s.scratchpad).action
    ELSE None

\* C12: when step < max_steps, route_action returns act_internal exactly when
\* the most recent decision's action is search_internal, act_external exactly
\* when it is web_search, and finish for any other action value, for a record
\* without an action and for an empty decision trace; route_action changes no
\* field of the state.
C12_RouterFollowsLatestDecision ==
    [][pc = "route" =>
          /\ state' = state
          /\ state.step < state.max_steps =>
                /\ pc' = "act_internal" <=> LatestAction(state) = "search_internal"
                /\ pc' = "act_external" <=> LatestAction(state) = "web_search"
                /\ pc' = "finish" <=>
                       LatestAction(state) \notin {"search_internal", "web_search"}
                /\ state.scratchpad = << >> => pc' = "finish"]_vars

\* the router has returned finish, with budget left, for a latest record
\* that carries no action and follows a record naming a search
C12_Witness ==
    /\ pc = "finish"
    /\ state.step < state.max_steps
    /\ Len(state.scratchpad) = 2
    /\ "action" \notin DOMAIN Last(state.scratchpad)
    /\ GetAction(state.scratchpad[1]) = "search_internal"

-----------------------------------------------------------------------------
(* The retrieval index on its own: one process calling the functions of    *)
(* rag_search and rag_loader in any order, over an index directory that an *)
(* earlier process may have written                                        *)

\* the corpus locations the calls are made with
CacheKbPaths == {"kbA", "kbB", "kbMissing", "kbFile", "kbEmpty"}

\* clear_vectorstore_cache: both globals back to None
clear_vectorstore_cache(g) == [g EXCEPT !.cache = NoIndex, !.cache_kb = None]

\* what a call did: the function, its arguments, whether the embedding
\* requests succeeded, how the index was obtained (cached, loaded, built,
\* raised; none for a call that obtains no index), whether it caught the
\* exception of a failed load, and the index returned
CacheOp(node, kb_path, force_rebuild, api_ok, how, load_failed, error, index) ==
    [node |-> node, outcome |-> how, error |-> error, kb_path |-> kb_path,
     force_rebuild |-> force_rebuild, api_ok |-> api_ok,
     load_failed |-> load_failed, index |-> index]

\* what an earlier process may have left in the index directory: nothing, an
\* index of either corpus built under either embedding model, or index
\* files that cannot be read back
PersistedIndexes ==
    {NoIndex}
    \cup {IndexWith(kb, model) : kb \in {"kbA", "kbB"}, model \in EmbeddingModels}
    \cup {Unloadable(IndexWith("kbA", model)) : model \in EmbeddingModels}

CacheInit ==
    /\ state = create_initial_state(<<"q">>, 0, None)
    /\ pc = "cache"
    /\ exc = NoExc
    /\ _llm_client = None
    /\ _verbose_mode = FALSE
    /\ _vectorstore_cache = NoIndex
    /\ _cache_kb_path = None
    /\ disk_index \in PersistedIndexes
    /\ embedding_model \in EmbeddingModels
    /\ response_text = << >>
    /\ parsed = NotParsed
    /\ reason_calls = 0
    /\ action_calls = [act_internal |-> 0, act_external |-> 0]
    /\ finish_calls = 0
    /\ llm_requests = 0
    /\ last_call = CacheOp("START", None, FALSE, TRUE, "none", FALSE, << >>, NoIndex)

InitializeVectorstore ==
    /\ \E kb_path \in CacheKbPaths, force_rebuild \in BOOLEAN, api_ok \in BOOLEAN :
          LET r == initialize_vectorstore(kb_path, force_rebuild, Globals, api_ok) IN
          /\ _vectorstore_cache' = r.g.cache
          /\ _cache_kb_path' = r.g.cache_kb
          /\ disk_index' = r.g.disk
          /\ last_call' = CacheOp("initialize_vectorstore", kb_path, force_rebuild,
                                  api_ok, r.how, r.load_failed, r.error, r.index)
    /\ UNCHANGED <<response_text, parsed>>
    /\ UNCHANGED <<state, pc, exc, _llm_client, _verbose_mode, embedding_model,
                   reason_calls, action_calls, finish_calls, llm_requests>>

GetOrCreateVectorstore ==
    /\ \E kb_path \in CacheKbPaths, force_rebuild \in BOOLEAN, api_ok \in BOOLEAN :
          LET r == get_or_create_vectorstore(kb_path, force_rebuild, disk_index,
                                             api_ok) IN
          /\ disk_index' = r.disk
          /\ last_call' = CacheOp("get_or_create_vectorstore", kb_path,
                                  force_rebuild, api_ok, r.how, r.load_failed,
                                  r.error, r.index)
    /\ UNCHANGED <<response_text, parsed>>
    /\ UNCHANGED <<state, pc, exc, _llm_client, _verbose_mode, _vectorstore_cache,
                   _cache_kb_path, embedding_model, reason_calls, action_calls,
                   finish_calls, llm_requests>>

SearchInternal ==
    /\ \E kb_path \in CacheKbPaths \cup {None}, env \in InternalEnvs :
          LET r == search_internal(kb_path, Globals, env) IN
          /\ _vectorstore_cache' = r.g.cache
          /\ _cache_kb_path' = r.g.cache_kb
          /\ disk_index' = r.g.disk
          /\ last_call' = CacheOp("search_internal", kb_path, FALSE, env.api_ok,
                                  r.how, r.load_failed, r.error, r.index)
    /\ UNCHANGED <<response_text, parsed>>
    /\ UNCHANGED <<state, pc, exc, _llm_client, _verbose_mode, embedding_model,
                   reason_calls, action_calls, finish_calls, llm_requests>>

ClearVectorstoreCache ==
    /\ LET g == clear_vectorstore_cache(Globals) IN
          /\ _vectorstore_cache' = g.cache
          /\ _cache_kb_path' = g.cache_kb
          /\ disk_index' = g.disk
    /\ last_call' = CacheOp("clear_vectorstore_cache", None, FALSE, TRUE, "none",
                            FALSE, << >>, NoIndex)
    /\ UNCHANGED <<response_text, parsed>>
    /\ UNCHANGED <<state, pc, exc, _llm_client, _verbose_mode, embedding_model,
                   reason_calls, action_calls, finish_calls, llm_requests>>

CacheNext ==
    \/ InitializeVectorstore
    \/ GetOrCreateVectorstore
    \/ SearchInternal
    \/ ClearVectorstoreCache

CacheSpec == CacheInit /\ [][CacheNext]_vars

-----------------------------------------------------------------------------
(* Properties of the retrieval index *)

\* the step is a query (initialize_vectorstore without force_rebuild, or
\* search_internal) against the location the cache was populated for
QueriesCachedLocation ==
    /\ last_call'.node \in {"initialize_vectorstore", "search_internal"}
    /\ ~last_call'.force_rebuild
    /\ last_call'.kb_path = _cache_kb_path

\* the step is one of the two calls said to invalidate the cache
RebuildOrClear ==
    \/ last_call'.node = "clear_vectorstore_cache"
    \/ last_call'.node = "initialize_vectorstore" /\ last_call'.force_rebuild

\* the step is an initialize_vectorstore or search_internal call for a
\* location other than the cached one
QueriesOtherLocation ==
    /\ last_call'.node \in {"initialize_vectorstore", "search_internal"}
    /\ last_call'.kb_path \notin {_cache_kb_path, None}

CacheKept ==
    /\ _vectorstore_cache' = _vectorstore_cache
    /\ _cache_kb_path' = _cache_kb_path

\* C13 as claimed: once the cache holds the index for A, every call other
\* than initialize_vectorstore(force_rebuild=True) and
\* clear_vectorstore_cache(), queries against another location B included,
\* leaves the index for A cached, and a query against A performs no load and
\* no build.
C13_OnlyRebuildOrClearInvalidate ==
    [][(_vectorstore_cache # NoIndex /\ ~RebuildOrClear) =>
          /\ CacheKept
          /\ QueriesCachedLocation => last_call'.outcome = "cached"]_vars

\* C13: the cache holds one index. Once it holds the index for A, a query
\* against A performs no load and no build, and the index for A stays cached
\* over every call except initialize_vectorstore(force_rebuild=True),
\* clear_vectorstore_cache() and an initialize_vectorstore or search_internal
\* call for another location B: such a call, when it succeeds, replaces the
\* cached index by the one obtained for B, and when it raises leaves the
\* cache as it was.
C13_SingleSlotCache ==
    [][_vectorstore_cache # NoIndex =>
          /\ (~RebuildOrClear /\ ~QueriesOtherLocation) => CacheKept
          /\ QueriesCachedLocation =>
                 /\ last_call'.outcome = "cached"
                 /\ last_call'.index = _vectorstore_cache
          /\ QueriesOtherLocation =>
                 IF last_call'.outcome = "raised" /\ last_call'.index = NoIndex
                 THEN CacheKept
                 ELSE /\ _cache_kb_path' = last_call'.kb_path
                      /\ _vectorstore_cache' = last_call'.index
                      /\ last_call'.outcome \in {"loaded", "built"}]_vars

\* a query against A was answered from the cache, which had been populated
\* by building the index of A
C13_Witness ==
    /\ last_call.node = "search_internal"
    /\ last_call.kb_path = "kbA"
    /\ last_call.outcome = "cached"
    /\ _cache_kb_path = "kbA"
    /\ _vectorstore_cache = IndexWith("kbA", embedding_model)
    /\ disk_index = _vectorstore_cache

\* C14: no index is ever queried with an embedding model other than the one
\* it was built with: a persisted index built under another model than the
\* one configured at load time is not loaded, so every index a call returns
\* or the cache holds embeds its queries with the model of its vectors.
C14_IndexQueriedWithBuildModel ==
    /\ last_call.outcome = "loaded" => last_call.index.model = embedding_model
    /\ (last_call.node = "search_internal" /\ last_call.error = << >>) =>
           last_call.index.query_model = last_call.index.model
    /\ _vectorstore_cache # NoIndex =>
           _vectorstore_cache.query_model = _vectorstore_cache.model

\* the step is a second call in a row of the same index loader
\* (initialize_vectorstore or get_or_create_vectorstore) for the same corpus
\* location, both without force_rebuild, the first having returned an index
SecondLoaderCallInARow ==
    /\ last_call.node \in {"initialize_vectorstore", "get_or_create_vectorstore"}
    /\ last_call'.node = last_call.node
    /\ last_call'.kb_path = last_call.kb_path
    /\ ~last_call.force_rebuild
    /\ ~last_call'.force_rebuild
    /\ last_call.outcome # "raised"

\* C15: calling the index loader twice in a row for the same corpus location
\* with force_rebuild=False returns, the second time, an index equal to the
\* one the first call returned, and the second call performs no build: it
\* does not raise, and the persisted index is not written.
C15_LoaderIdempotent ==
    [][SecondLoaderCallInARow =>
          /\ last_call'.index = last_call.index
          /\ last_call'.outcome \in {"cached", "loaded"}
          /\ disk_index' = disk_index]_vars

\* initialize_vectorstore has returned the cached index of kbA without a
\* load or a build: the cache, empty when the process starts, was populated
\* by an earlier call of the loader for kbA, which built the index where the
\* index directory held none that could be read
C15_Witness ==
    /\ last_call.node = "initialize_vectorstore"
    /\ last_call.kb_path = "kbA"
    /\ ~last_call.force_rebuild
    /\ last_call.outcome = "cached"
    /\ last_call.index = IndexWith("kbA", embedding_model)
    /\ _vectorstore_cache = last_call.index
    /\ _cache_kb_path = "kbA"

\* the step is a get_or_create_vectorstore call
GetOrCreateCall == last_call'.node = "get_or_create_vectorstore"

\* the build path of the call succeeds: the corpus has documents and the
\* embedding requests are answered
BuildSucceeds == CorpusKind(last_call'.kb_path) = "docs" /\ last_call'.api_ok

\* the call went through the build path: it returned a newly built index
\* of the corpus, saved to the index directory, or raised the error of
\* load_documents or of the embedding and left the directory as it was
TookBuildPath ==
    IF BuildSucceeds
    THEN /\ last_call'.outcome = "built"
         /\ last_call'.index = IndexWith(last_call'.kb_path, embedding_model)
         /\ disk_index' = last_call'.index
    ELSE /\ last_call'.outcome = "raised"
         /\ last_call'.error \in {load_documents(last_call'.kb_path),
                                  <<"embedding request failed">>}
         /\ last_call'.error # << >>
         /\ disk_index' = disk_index

\* C16: get_or_create_vectorstore with force_rebuild=False and a persisted
\* index present loads it and performs no build; if that load raises, the
\* exception is swallowed (it is not the error of the call) and the index is
\* rebuilt from the corpus documents; with force_rebuild=True the persisted
\* index is never loaded and the build always runs.
C16_LoadElseBuild ==
    [][GetOrCreateCall =>
          /\ (~last_call'.force_rebuild /\ disk_index.built_from # None
                  /\ disk_index.loadable) =>
                 /\ last_call'.outcome = "loaded"
                 /\ ~last_call'.load_failed
                 /\ last_call'.index = [disk_index EXCEPT !.query_model = embedding_model]
                 /\ disk_index' = disk_index
          /\ (~last_call'.force_rebuild /\ disk_index.built_from # None
                  /\ ~disk_index.loadable) =>
                 /\ last_call'.load_failed
                 /\ TookBuildPath
                 /\ last_call'.error # <<"could not read index.faiss">>
          /\ last_call'.force_rebuild =>
                 /\ last_call'.outcome # "loaded"
                 /\ ~last_call'.load_failed
                 /\ TookBuildPath]_vars

\* a call without force_rebuild found index files it could not read and
\* returned a newly built index, which replaced them
C16_Witness ==
    /\ last_call.node = "get_or_create_vectorstore"
    /\ ~last_call.force_rebuild
    /\ last_call.load_failed
    /\ last_call.outcome = "built"
    /\ disk_index = last_call.index
    /\ last_call.index.loadable
    /\ last_call.index.built_from = "kbA"
    /\ _vectorstore_cache = NoIndex

\* the step is a search or an index build against a location that is
\* missing, is not a directory or holds no document, and for which neither
\* the cached nor the persisted index was built
InvalidLocationCall ==
    /\ last_call'.node \in {"initialize_vectorstore", "get_or_create_vectorstore",
                            "search_internal"}
    /\ last_call'.kb_path # None
    /\ CorpusKind(last_call'.kb_path) # "docs"
    /\ _vectorstore_cache.built_from # last_call'.kb_path
    /\ disk_index.built_from # last_call'.kb_path

\* C17: when no index has been built for the given corpus location, a search
\* or index build against a location that is missing, is not a directory or
\* yields zero documents is rejected with the configuration error of
\* load_documents, and the in-process cache is left unchanged.
C17_InvalidLocationRejected ==
    [][InvalidLocationCall =>
          /\ last_call'.outcome = "raised"
          /\ last_call'.error = load_documents(last_call'.kb_path)
          /\ _vectorstore_cache' = _vectorstore_cache
          /\ _cache_kb_path' = _cache_kb_path]_vars

-----------------------------------------------------------------------------
(* The reasoning parser as a function: _parse_reasoning_response applied *)
(* to any response of a few lines                                         *)

\* the most lines a response has
MaxLines == 3

\* the three actions the parser returns
ParserActions == {"search_internal", "web_search", "finish"}

\* ordinary texts after a label: non-empty, without a label in them
PlainTexts == {<<"x">>, <<"y">>}

\* what may follow ACTION: an action name, one in upper case, a word that is
\* no action name, a word that holds a part of an action name
ActionTexts == ParserActions \cup {"WEB_SEARCH", "think", "internally"}

\* the labels as the parser tests for them, and in lower and mixed case
UpperLabels == {"THOUGHT:", "ACTION:", "ACTION_INPUT:", "ACTION INPUT:"}

OtherCaseLabels ==
    {"thought:", "Thought:", "action:", "Action:", "action_input:", "Action_Input:"}

\* label.upper()
UpperLabel(w) ==
    CASE w \in {"thought:", "Thought:"} -> "THOUGHT:"
      [] w \in {"action:", "Action:"} -> "ACTION:"
      [] w \in {"action_input:", "Action_Input:"} -> "ACTION_INPUT:"
      [] OTHER -> w

\* the lines of a response: labelled lines, lines whose label is in lower or
\* mixed case, and lines without a label (one of them empty)
ResponseLines ==
    {<<"THOUGHT:">> \o t : t \in PlainTexts}
    \cup {<<"ACTION:", a>> : a \in ActionTexts}
    \cup {<<"ACTION:", "finish", "website">>}
    \cup {<<"ACTION_INPUT:">> \o t : t \in PlainTexts}
    \cup {<<"ACTION INPUT:", "y">>}
    \cup {<<"thought:", "x">>, <<"Action:", "web_search">>, <<"action_input:", "y">>}
    \cup {<<"I", "am", "not", "sure">>, << >>}

Responses == UNION {[1..n -> ResponseLines] : n \in 0..MaxLines}

ParserInit ==
    /\ response_text \in Responses
    /\ parsed = NotParsed
    /\ pc = "parse"
    /\ state = create_initial_state(<<"q">>, 0, None)
    /\ exc = NoExc
    /\ _llm_client = None
    /\ _verbose_mode = FALSE
    /\ _vectorstore_cache = NoIndex
    /\ _cache_kb_path = None
    /\ disk_index = NoIndex
    /\ embedding_model = DefaultEmbeddingModel
    /\ reason_calls = 0
    /\ action_calls = [act_internal |-> 0, act_external |-> 0]
    /\ finish_calls = 0
    /\ llm_requests = 0
    /\ last_call = [node |-> "START", outcome |-> "none", error |-> << >>]

\* generate_reasoning handing the response text to the parser
ParseReasoningResponse ==
    /\ pc = "parse"
    /\ parsed' = _parse_reasoning_response(response_text)
    /\ pc' = "parsed"
    /\ UNCHANGED <<state, exc, _llm_client, _verbose_mode, _vectorstore_cache,
                   _cache_kb_path, disk_index, embedding_model, response_text,
                   reason_calls, action_calls, finish_calls, llm_requests,
                   last_call>>

ParserSpec == ParserInit /\ [][ParseReasoningResponse]_vars

\* no line of the response begins with a label, in whatever case
NoLabel(lines) ==
    \A i \in 1..Len(lines) :
        lines[i] = << >> \/ lines[i][1] \notin UpperLabels \cup OtherCaseLabels

\* C18: on the three lines 'THOUGHT: x', 'ACTION: a', 'ACTION_INPUT: y' with
\* a one of the three action names (x and y ordinary texts), the parser
\* returns exactly (x, a, y); on a response with no recognisable label it
\* returns the action finish.
C18_ThreeLinesAndNoLabel ==
    pc = "parsed" =>
        /\ \A x \in PlainTexts, y \in PlainTexts, a \in ParserActions :
               response_text = << <<"THOUGHT:">> \o x, <<"ACTION:", a>>,
                                  <<"ACTION_INPUT:">> \o y >>
                   => parsed = [thought |-> x, action |-> a, action_input |-> y]
        /\ NoLabel(response_text) => parsed.action = "finish"

\* the three-line response naming search_internal has been parsed
C18_Witness ==
    /\ pc = "parsed"
    /\ response_text = << <<"THOUGHT:", "x">>, <<"ACTION:", "search_internal">>,
                          <<"ACTION_INPUT:", "y">> >>
    /\ parsed = [thought |-> <<"x">>, action |-> "search_internal",
                 action_input |-> <<"y">>]

\* the kind of a line as the parser sees it
LineKind(line) ==
    IF StartsWith(line, "THOUGHT:") THEN "THOUGHT"
    ELSE IF StartsWith(line, "ACTION:") THEN "ACTION"
    ELSE IF StartsWith(line, "ACTION_INPUT:") \/ StartsWith(line, "ACTION INPUT:")
    THEN "ACTION_INPUT"
    ELSE "none"

HasLine(lines, kind) == \E i \in 1..Len(lines) : LineKind(lines[i]) = kind

IsLabelled(line) == LineKind(line) # "none"

\* no label occurs on two lines
LabelsDistinct(lines) ==
    \A i, j \in 1..Len(lines) :
        (i # j /\ IsLabelled(lines[i])) => LineKind(lines[i]) # LineKind(lines[j])

\* the lines in another order
Reordered(lines, p) == [i \in 1..Len(lines) |-> lines[p[i]]]

\* C19: the parser returns a result for every response, with an action among
\* search_internal, web_search and finish; the labelled lines are recognised
\* in any order and among unlabelled lines, and a missing THOUGHT, ACTION or
\* ACTION_INPUT line yields the default rationale, finish, or the default
\* argument.
C19_TotalOrderFreeDefaults ==
    pc = "parsed" =>
        /\ DOMAIN parsed = {"thought", "action", "action_input"}
        /\ parsed.action \in ParserActions
        /\ LabelsDistinct(response_text) =>
               \A p \in Permutations(1..Len(response_text)) :
                   _parse_reasoning_response(Reordered(response_text, p)) = parsed
        /\ _parse_reasoning_response(SelectSeq(response_text, IsLabelled)) = parsed
        /\ ~HasLine(response_text, "THOUGHT") => parsed.thought = DefaultThought
        /\ ~HasLine(response_text, "ACTION") => parsed.action = "finish"
        /\ ~HasLine(response_text, "ACTION_INPUT") =>
               parsed.action_input = DefaultActionInput

\* a response with the ACTION line first, an unlabelled line and the THOUGHT
\* line last, and no ACTION_INPUT line, has been parsed
C19_Witness ==
    /\ pc = "parsed"
    /\ response_text = << <<"ACTION:", "web_search">>, <<"I", "am", "not", "sure">>,
                          <<"THOUGHT:", "x">> >>
    /\ parsed = [thought |-> <<"x">>, action |-> "web_search",
                 action_input |-> DefaultActionInput]

\* the same response with every label in upper case
WithUpperLabels(lines) ==
    [i \in 1..Len(lines) |->
        IF lines[i] = << >> THEN << >>
        ELSE <<UpperLabel(lines[i][1])>> \o Tail(lines[i])]

\* C20: the labels are recognised case-insensitively: a response whose lines
\* carry the labels in lower or mixed case parses to the same (thought,
\* action, argument) as the same response with upper-case labels.
C20_LabelsCaseInsensitive ==
    pc = "parsed" => parsed = _parse_reasoning_response(WithUpperLabels(response_text))

\* the ACTION lines of a response, in order
ActionLinesOf(lines) == SelectSeq(lines, LAMBDA line : LineKind(line) = "ACTION")

\* the action name occurs in the text of the line
NameOccurs(line, name) == Contains(Lower(Tail(line)), name)

\* the action a single ACTION line selects: the first of the fragments
\* internal, web, finish that its lower-cased text contains, None if it
\* contains none of them
FragmentAction(line) ==
    IF Contains(Lower(Tail(line)), "internal") THEN "search_internal"
    ELSE IF Contains(Lower(Tail(line)), "web") THEN "web_search"
    ELSE IF Contains(Lower(Tail(line)), "finish") THEN "finish"
    ELSE None

\* the action selected by the last ACTION line that selects one, finish if
\* no line does
RECURSIVE LastSelected(_)
LastSelected(action_lines) ==
    IF action_lines = << >> THEN "finish"
    ELSE IF FragmentAction(Last(action_lines)) # None
    THEN FragmentAction(Last(action_lines))
    ELSE LastSelected(SubSeq(action_lines, 1, Len(action_lines) - 1))

\* C21 as claimed: for a response with one ACTION line, the parsed action is
\* search_internal or web_search only if that name occurs in the line's
\* text, and it is finish whenever none of the three names occurs in it.
C21_ResolvedByActionName ==
    (pc = "parsed" /\ Len(ActionLinesOf(response_text)) = 1) =>
        LET line == ActionLinesOf(response_text)[1] IN
        /\ parsed.action # "finish" => NameOccurs(line, parsed.action)
        /\ (\A name \in ParserActions : ~NameOccurs(line, name)) =>
               parsed.action = "finish"

\* C21: the parsed action is resolved by substring match of the lower-cased
\* text of the ACTION line against the fragments internal, web and finish,
\* in that order: it is search_internal if the text contains internal, else
\* web_search if it contains web, else finish if it contains finish; a line
\* that contains none of them selects nothing, so the result is that of the
\* last ACTION line that selects an action, and finish if there is none.
C21_ResolvedByFragment ==
    pc = "parsed" => parsed.action = LastSelected(ActionLinesOf(response_text))

\* a line naming finish and holding the fragment web has been resolved to
\* web_search after a line that selected search_internal
C21_Witness ==
    /\ pc = "parsed"
    /\ response_text = << <<"ACTION:", "internally">>,
                          <<"ACTION:", "finish", "website">>,
                          <<"ACTION:", "think">> >>
    /\ parsed.action = "web_search"


-----------------------------------------------------------------------------
(* The final report and the end of the run *)

\* a step that changes final_answer is a step of finish_node
OnlyFinishAssigns ==
    state.final_answer' # state.final_answer =>
        (pc = "finish" /\ finish_calls' = finish_calls + 1)

\* from the finish node on, a step runs no reasoning or action node and
\* leads to END
NothingAfterFinish ==
    pc \in {"finish", "END"} =>
        (reason_calls' = reason_calls /\ action_calls' = action_calls /\ pc' = "END")

\* C22: final_answer is None in every state reached before finish_node
\* runs; finish_node runs exactly once per run and only it assigns
\* final_answer; it is the last node executed: once route_action has
\* returned finish no reasoning or action node runs again.
C22_FinishRunsOnceAndLast ==
    /\ [](finish_calls = 0 => state.final_answer = NoAnswer)
    /\ [](finish_calls <= 1)
    /\ <>(finish_calls = 1 /\ pc = "END")
    /\ [][OnlyFinishAssigns]_vars
    /\ [][NothingAfterFinish]_vars

\* a run that reasoned, acted, and ended with the report finish_node wrote
C22_Witness ==
    /\ pc = "END"
    /\ finish_calls = 1
    /\ action_calls.act_internal + action_calls.act_external >= 1
    /\ state.final_answer # NoAnswer


-----------------------------------------------------------------------------
(* The fallback report of finish_node: finish_node applied to the states the
   graph can hand to it *)

\* research questions
FinishQueries == {<<"q">>, <<"r">>}

\* a client that was created, and the decisions the model answers with
CreatedClient == get_llm_client(None, TRUE)

DecisionText(action) == LLMText(<< <<"ACTION:", action>> >>)

\* process globals of a fresh process
FreshGlobals == [cache |-> NoIndex, cache_kb |-> None, disk |-> NoIndex]

\* the runs (state and globals) one reasoning call and one action node after
\* the run r: the action is skipped, fails, or finds results
OneActionLater(r) ==
    IF r.state.step >= r.state.max_steps THEN {}
    ELSE LET si == reason_node(r.state, CreatedClient,
                               DecisionText("search_internal"), FALSE)
             se == reason_node(r.state, CreatedClient,
                               DecisionText("web_search"), FALSE)
         IN  {[state |-> act_internal_node(si, r.g, env).state,
               g |-> act_internal_node(si, r.g, env).g] :
                   env \in {e \in InternalEnvs : e.hits # 0}}
             \cup {[state |-> act_external_node(se, env).state, g |-> r.g] :
                       env \in {e \in WebEnvs : e.found # << >>}}

\* the runs up to n actions after the runs of R
RECURSIVE RunsWithin(_, _)
RunsWithin(R, n) ==
    IF n = 0 \/ R = {} THEN R
    ELSE R \cup RunsWithin(UNION {OneActionLater(r) : r \in R}, n - 1)

\* the states finish_node is invoked with: after the reasoning call that
\* decided to finish
FinishTimeStates ==
    {reason_node(r.state, CreatedClient, DecisionText("finish"), FALSE) :
        r \in RunsWithin(
            {[state |-> create_initial_state(query, max_steps, kb_path),
              g |-> FreshGlobals] :
                 query \in FinishQueries, max_steps \in 0..MaxStepsBound,
                 kb_path \in {None, "kbA"}},
            MaxStepsBound)}

FinishInit ==
    /\ embedding_model = DefaultEmbeddingModel
    /\ state \in FinishTimeStates
    /\ pc = "finish"
    /\ exc = NoExc
    /\ _llm_client = None
    /\ _verbose_mode \in BOOLEAN
    /\ _vectorstore_cache = NoIndex
    /\ _cache_kb_path = None
    /\ disk_index = NoIndex
    /\ response_text = << >>
    /\ parsed = NotParsed
    /\ reason_calls = 0
    /\ action_calls = [act_internal |-> 0, act_external |-> 0]
    /\ finish_calls = 0
    /\ llm_requests = 0
    /\ last_call = [node |-> "START", outcome |-> "none", error |-> << >>]

FinishSpec == FinishInit /\ [][FinishNode]_vars

\* finish_node has written the fallback report, and s is a state of another
\* execution with the same evidence lists
FellBackOnEvidenceOf(s) ==
    /\ pc = "END"
    /\ state.final_answer.kind = "fallback"
    /\ s.internal_context = state.internal_context
    /\ s.external_context = state.external_context

\* the report of the execution of finish_node on s whose synthesis call
\* fails with the reason this one failed with
ReportOnSameFailure(s) == FallbackAnswer(s, state.final_answer.error)

\* C23 as claimed: two finish_node executions whose synthesis call fails
\* with the same reason and whose internal and external evidence lists are
\* equal produce identical report text.
C23_ReportFromEvidenceAndReason ==
    \A s \in FinishTimeStates :
        FellBackOnEvidenceOf(s) => ReportOnSameFailure(s) = state.final_answer

\* C23: the fallback report is a deterministic function of the query, the
\* step counter, the evidence lists and the failure reason: two finish_node
\* executions whose synthesis call fails with the same reason, for the same
\* query, with equal step and equal internal and external evidence lists
\* produce identical report text.
C23_ReportFromQueryStepEvidenceReason ==
    \A s \in FinishTimeStates :
        (FellBackOnEvidenceOf(s) /\ s.query = state.query /\ s.step = state.step)
            => ReportOnSameFailure(s) = state.final_answer

\* a fallback report written after a search that found something and an
\* action that left no evidence
C23_Witness ==
    /\ pc = "END"
    /\ state.final_answer.kind = "fallback"
    /\ state.step = 2
    /\ Len(state.tool_calls) = 1
    /\ state.external_context # << >>


-----------------------------------------------------------------------------
(* Single runs of the loop *)

\* synthesis time: finish_node is about to run or has run
AtSynthesis == pc \in {"finish", "END"}

\* C24: with a corpus and max_steps >= 1, if the first decision is
\* search_internal and the second decision is finish, then at synthesis time
\* tool_calls has exactly one entry, that entry's tool is search_internal,
\* and step = 1.
C24_OneInternalSearchThenFinish ==
    (/\ AtSynthesis
     /\ state.kb_path # None
     /\ state.max_steps >= 1
     /\ Len(state.scratchpad) >= 2
     /\ state.scratchpad[1].action = "search_internal"
     /\ state.scratchpad[2].action = "finish")
    => (/\ Len(state.tool_calls) = 1
        /\ state.tool_calls[1].tool = "search_internal"
        /\ state.step = 1)

\* the search of the first decision found chunks of the corpus, the second
\* decision was finish and budget was left
C24_Witness ==
    /\ pc = "finish"
    /\ state.kb_path = "kbA"
    /\ state.max_steps >= 2
    /\ Len(state.scratchpad) = 2
    /\ state.scratchpad[1].action = "search_internal"
    /\ state.scratchpad[1].action_input = <<"y">>
    /\ state.scratchpad[2].action = "finish"
    /\ state.internal_context # << >>
    /\ state.tool_calls[1].input = <<"y">>


\* a run with max_steps = 0 and no corpus
ZeroBudgetNoCorpus == state.max_steps = 0 /\ state.kb_path = None

\* the router sends the first decision to finish, no action node runs and
\* nothing is gathered
FinishForcedAtOnce ==
    /\ pc = "route" => route_action(state) = "finish"
    /\ pc \notin ActionNodes
    /\ action_calls.act_internal = 0 /\ action_calls.act_external = 0
    /\ state.internal_context = << >>
    /\ state.external_context = << >>
    /\ state.tool_calls = << >>
    /\ state.step = 0
    /\ reason_calls <= 1
    /\ pc = "END" => (reason_calls = 1 /\ finish_calls = 1)

\* C25: with max_steps = 0 and no corpus, the router forces finish right
\* after the first reasoning call whatever that decision is: no action node
\* runs, internal_context and external_context are empty, step = 0 at the
\* end, and a report (LLM output or fallback) is produced.
C25_ZeroBudgetStillReports ==
    ZeroBudgetNoCorpus =>
        /\ FinishForcedAtOnce
        /\ pc = "END" => Populated(state.final_answer)


\* a step of reason_node appends exactly one record to the scratchpad and
\* changes nothing else of the state; no other step changes the scratchpad
OneRecordPerReasoningCall ==
    IF reason_calls' = reason_calls + 1
    THEN /\ Len(state'.scratchpad) = Len(state.scratchpad) + 1
         /\ SubSeq(state'.scratchpad, 1, Len(state.scratchpad)) = state.scratchpad
         /\ state' = [state EXCEPT !.scratchpad = state'.scratchpad]
    ELSE state'.scratchpad = state.scratchpad

\* C26: every reason_node invocation appends exactly one decision record to
\* the scratchpad, whether the LLM call succeeds, returns malformed text or
\* raises, so that len(scratchpad) equals the number of completed reasoning
\* calls in every state.
C26_OneDecisionPerReasoningCall ==
    /\ [](Len(state.scratchpad) = reason_calls)
    /\ [][OneRecordPerReasoningCall]_vars

\* three reasoning calls: two that decided a search and one that raised
C26_Witness ==
    /\ reason_calls = 3
    /\ Len(state.scratchpad) = 3
    /\ last_call.node = "reason"
    /\ last_call.outcome = "raise"
    /\ StartsWith(Last(state.scratchpad).thought, "Error during reasoning: ")


\* a step of act_internal_node without a kb_path adds 1 to step, changes
\* nothing else of the state, and touches neither the cached nor the
\* persisted index
SkippedWithoutCorpus ==
    (pc = "act_internal" /\ state.kb_path = None) =>
        /\ state' = [state EXCEPT !.step = state.step + 1]
        /\ last_call'.outcome = "skipped"
        /\ exc' = NoExc
        /\ _vectorstore_cache' = _vectorstore_cache
        /\ _cache_kb_path' = _cache_kb_path
        /\ disk_index' = disk_index

\* C27: when kb_path is absent, act_internal_node is a no-op apart from
\* step: it performs no retrieval call, increments step by exactly 1, and
\* leaves tool_calls, internal_context, external_context and the scratchpad
\* unchanged.
C27_NoCorpusSkipsRetrieval == [][SkippedWithoutCorpus]_vars

\* act_internal_node has run without a kb_path in a process that holds a
\* cached index
C27_Witness ==
    /\ last_call.node = "act_internal"
    /\ state.kb_path = None
    /\ state.step = 1
    /\ state.tool_calls = << >>
    /\ _vectorstore_cache # NoIndex


-----------------------------------------------------------------------------
(* web_search on its own: calls with any max_results against a provider
   whose results may lack fields *)

\* the most results the provider finds, and the largest max_results asked for
MaxFound == 3

NormalisedKeys == {"title", "url", "content", "score", "published_date"}

TextKeys == {"title", "url", "content"}

\* raw results of the provider: a complete one, one without title and
\* publication date, one with a url only, one with no field at all
RawResults ==
    {[title |-> <<"T", 1>>, url |-> <<"U", 1>>, content |-> <<"C", 1>>,
      score |-> 1, published_date |-> <<"2024-01-01">>],
     [url |-> <<"U", 2>>, content |-> <<"C", 2>>, score |-> 2],
     [url |-> <<"U", 3>>],
     << >>}

FoundLists == UNION {[1..n -> RawResults] : n \in 0..MaxFound}

\* a web_search call for the history variable last_call
WebOp(node, max_results, env, r) ==
    [node |-> node, outcome |-> IF r.raised THEN "raised" ELSE "ok",
     error |-> r.error, max_results |-> max_results, found |-> env.found,
     results |-> r.results]

WebInit ==
    /\ state = create_initial_state(<<"q">>, 0, None)
    /\ pc = "web"
    /\ exc = NoExc
    /\ _llm_client = None
    /\ _verbose_mode = FALSE
    /\ _vectorstore_cache = NoIndex
    /\ _cache_kb_path = None
    /\ disk_index = NoIndex
    /\ embedding_model = DefaultEmbeddingModel
    /\ response_text = << >>
    /\ parsed = NotParsed
    /\ reason_calls = 0
    /\ action_calls = [act_internal |-> 0, act_external |-> 0]
    /\ finish_calls = 0
    /\ llm_requests = 0
    /\ last_call = [node |-> "START", outcome |-> "none", error |-> << >>]

WebSearch ==
    /\ pc = "web"
    /\ \E max_results \in 0..MaxFound,
          env \in [raises : BOOLEAN, found : FoundLists] :
          last_call' = WebOp("web_search", max_results, env,
                             web_search(max_results, env))
    /\ pc' = "returned"
    /\ UNCHANGED <<state, exc, _llm_client, _verbose_mode,
                   _vectorstore_cache, _cache_kb_path, disk_index,
                   embedding_model, response_text, parsed, reason_calls,
                   action_calls, finish_calls, llm_requests>>

WebSpec == WebInit /\ [][WebSearch]_vars

\* web_search has returned a list
WebSearchReturned == last_call.node = "web_search" /\ last_call.outcome = "ok"

\* the i-th result returned is the i-th result of the provider with exactly
\* the five keys: a text missing from it is the empty string, a score or a
\* date missing from it is None
NormalisedFrom(result, raw) ==
    /\ DOMAIN result = NormalisedKeys
    /\ \A key \in TextKeys :
           result[key] = IF key \in DOMAIN raw THEN raw[key] ELSE << >>
    /\ \A key \in NormalisedKeys \ TextKeys :
           result[key] = IF key \in DOMAIN raw THEN raw[key] ELSE None

-----------------------------------------------------------------------------
(* The command line: main validates --kb, calls run_agent and exits *)

\* how run_agent ended, as main sees it: it returned, it raised an
\* Exception, or the user interrupted it
RunOutcomes == {"returned", "raised", "interrupted"}

\* main with KeyboardInterrupt handled like any other exception
main_interrupt_as_error(how) ==
    IF how = "returned" THEN 0 ELSE 1

\* the status main exits with after run_agent ended; with --debug the
\* exception is re-raised and the interpreter exits with 1 too
main(how) ==
    IF how = "returned" THEN 0
    ELSE IF how = "interrupted" THEN 130
    ELSE 1

\* sys.exit(1) of the --kb validation
KbMissingStatus == 1

\* kb.exists() is false
KbMissing(kb) == kb # None /\ CorpusKind(kb) = "missing"

\* the end of the process for the history variable last_call
Exit(how, code) == [node |-> "main", outcome |-> how, error |-> << >>, code |-> code]

GraphPositions == {"reason", "route", "act_internal", "act_external", "finish", "END"}

CliInit ==
    /\ \E max_steps \in 0..MaxStepsBound, kb \in KbPaths \cup {None} :
           state = create_initial_state(<<"q">>, max_steps, kb)
    /\ pc = "main"
    /\ exc = NoExc
    /\ _llm_client = None
    /\ _verbose_mode \in BOOLEAN
    /\ _vectorstore_cache = NoIndex
    /\ _cache_kb_path = None
    /\ disk_index \in {NoIndex, Index("kbA")}
    /\ embedding_model = DefaultEmbeddingModel
    /\ response_text = << >>
    /\ parsed = NotParsed
    /\ reason_calls = 0
    /\ action_calls = [act_internal |-> 0, act_external |-> 0]
    /\ finish_calls = 0
    /\ llm_requests = 0
    /\ last_call = [node |-> "START", outcome |-> "none", error |-> << >>]

\* main up to the call of run_agent
MainCommand ==
    /\ pc = "main"
    /\ IF KbMissing(state.kb_path)
       THEN /\ pc' = "EXIT"
            /\ last_call' = Exit("kb_missing", KbMissingStatus)
       ELSE /\ pc' = "reason"
            /\ UNCHANGED last_call
    /\ UNCHANGED <<state, exc, _llm_client, _verbose_mode, _vectorstore_cache,
                   _cache_kb_path, disk_index, embedding_model, response_text,
                   parsed, reason_calls, action_calls, finish_calls,
                   llm_requests>>

\* the graph has ended: run_agent shows the report, writes the output file
\* and returns, or raises when the file cannot be written
RunAgentEnds ==
    /\ pc = "END"
    /\ \E how \in {"returned", "raised"} :
           last_call' = Exit(how, main(how))
    /\ pc' = "EXIT"
    /\ UNCHANGED <<state, exc, _llm_client, _verbose_mode, _vectorstore_cache,
                   _cache_kb_path, disk_index, embedding_model, response_text,
                   parsed, reason_calls, action_calls, finish_calls,
                   llm_requests>>

\* Ctrl-C while run_agent runs: no node catches KeyboardInterrupt
KeyboardInterrupt ==
    /\ pc \in GraphPositions
    /\ last_call' = Exit("interrupted", main("interrupted"))
    /\ pc' = "EXIT"
    /\ UNCHANGED <<state, exc, _llm_client, _verbose_mode, _vectorstore_cache,
                   _cache_kb_path, disk_index, embedding_model, response_text,
                   parsed, reason_calls, action_calls, finish_calls,
                   llm_requests>>

CliNext ==
    \/ MainCommand
    \/ ReasonNode
    \/ Route
    \/ ActInternalNode
    \/ ActExternalNode
    \/ FinishNode
    \/ RunAgentEnds
    \/ KeyboardInterrupt

CliSpec == CliInit /\ [][CliNext]_vars

\* C29: main exits with code 0 when run_agent returns, with a non-zero code
\* when run_agent raises an unrecovered exception or the given corpus path
\* does not exist, and with a distinct code (130, different from the error
\* code) on user interrupt.
C29_ExitCodes ==
    pc = "EXIT" =>
        /\ last_call.outcome = "returned" =>
               (last_call.code = 0 /\ finish_calls = 1)
        /\ last_call.outcome = "raised" => last_call.code # 0
        /\ last_call.outcome = "kb_missing" =>
               (last_call.code # 0 /\ reason_calls = 0)
        /\ last_call.outcome = "interrupted" =>
               (last_call.code = 130 /\ last_call.code # main("raised")
                                     /\ last_call.code # KbMissingStatus)
        /\ last_call.code = 0 => last_call.outcome = "returned"
        /\ KbMissing(state.kb_path) => last_call.outcome = "kb_missing"

\* the user interrupted a run after its first search
C29_Witness ==
    /\ pc = "EXIT"
    /\ last_call.outcome = "interrupted"
    /\ last_call.code = 130
    /\ state.step = 1
    /\ finish_calls = 0


-----------------------------------------------------------------------------
(* The step counter *)

\* the action-node invocations so far
ActionInvocations == action_calls.act_internal + action_calls.act_external

\* an action-node step, whether its call succeeded, failed or was skipped,
\* adds exactly 1 to step; no other step changes it
StepCountsActions ==
    IF pc \in ActionNodes
    THEN /\ state'.step = state.step + 1
         /\ last_call'.outcome \in {"ok", "raised", "skipped"}
    ELSE state'.step = state.step

\* C30: step starts at 0, is changed only by action nodes, and each
\* action-node invocation (successful, failed or skipped) increases it by
\* exactly 1; hence step equals the number of action invocations so far and
\* at most max_steps action invocations occur in a run with max_steps >= 0.
C30_StepCountsActionInvocations ==
    /\ (reason_calls = 0 => state.step = 0)
    /\ [](state.step = ActionInvocations)
    /\ [](ActionInvocations <= state.max_steps)
    /\ [][StepCountsActions]_vars

\* a run that used its budget on a skipped internal search and a failed web
\* search
C30_Witness ==
    /\ state.step = 2
    /\ state.kb_path = None
    /\ action_calls.act_internal = 1
    /\ action_calls.act_external = 1
    /\ state.external_context = << >>
    /\ Len(state.tool_calls) = 1
    /\ "error" \in DOMAIN state.tool_calls[1]


-----------------------------------------------------------------------------
(* The audit log and the evidence lists *)

\* a step of an action node that appends a record to tool_calls
AppendsToolCall ==
    /\ pc \in ActionNodes
    /\ Len(state'.tool_calls) = Len(state.tool_calls) + 1

\* the action argument of the decision that triggered the action
TriggeringArgument == Last(state.scratchpad).action_input

\* C31: every tool-call record appended by an action node carries as its
\* input the action argument of the decision that triggered it (the latest
\* decision record's action_input), on the success path and on the error
\* path alike.
C31_ToolCallInputIsActionArgument ==
    [][AppendsToolCall => Last(state'.tool_calls).input = TriggeringArgument]_vars


\* the fields no action node writes
ActionFrame(s) ==
    [query |-> s.query, kb_path |-> s.kb_path, max_steps |-> s.max_steps,
     final_answer |-> s.final_answer, scratchpad |-> s.scratchpad]

\* a step of an action node leaves the other node's evidence list and the
\* fields of ActionFrame as they were
ActionNodeFrame ==
    /\ pc = "act_internal" =>
           (state'.external_context = state.external_context
            /\ ActionFrame(state') = ActionFrame(state))
    /\ pc = "act_external" =>
           (state'.internal_context = state.internal_context
            /\ ActionFrame(state') = ActionFrame(state))

\* a reasoning call that is not the first follows exactly one action-node
\* invocation since the reasoning call before it, and one action node at
\* most has run since the latest reasoning call
OneActionPerReasoningCall ==
    /\ pc = "reason" => ActionInvocations = reason_calls
    /\ pc \in {"route", "finish", "END"} \cup ActionNodes =>
           ActionInvocations = reason_calls - 1

\* C32: between two consecutive reasoning calls exactly one action node
\* runs; act_internal_node leaves external_context and the scratchpad
\* unchanged, act_external_node leaves internal_context and the scratchpad
\* unchanged, and neither changes query, kb_path, max_steps or final_answer.
C32_OneActionNodeWithFrame ==
    /\ []OneActionPerReasoningCall
    /\ [][ActionNodeFrame]_vars

\* a web search that found results has run after an internal search that
\* found chunks, and the third reasoning call is next
C32_Witness ==
    /\ pc = "reason"
    /\ reason_calls = 2
    /\ last_call.node = "act_external"
    /\ last_call.outcome = "ok"
    /\ state.internal_context # << >>
    /\ state.external_context # << >>


\* old is a prefix of new
IsPrefix(old, new) ==
    Len(old) <= Len(new) /\ SubSeq(new, 1, Len(old)) = old

\* a step leaves each of the four lists as it was or extends it at the end
ListsOnlyGrow ==
    /\ IsPrefix(state.scratchpad, state'.scratchpad)
    /\ IsPrefix(state.tool_calls, state'.tool_calls)
    /\ IsPrefix(state.internal_context, state'.internal_context)
    /\ IsPrefix(state.external_context, state'.external_context)

\* a search that returned appends all its results to its evidence list,
\* those the list already holds included
ResultsAppendedAgain ==
    (pc \in ActionNodes /\ last_call'.outcome = "ok") =>
        /\ pc = "act_internal" =>
               state'.internal_context =
                   state.internal_context \o Last(state'.tool_calls).output
        /\ pc = "act_external" =>
               state'.external_context =
                   state.external_context \o Last(state'.tool_calls).output

\* C33: the scratchpad, tool_calls, internal_context and external_context
\* are append-only over a run: in every step each of them either is
\* unchanged or is extended at the end, so every earlier value is a prefix
\* of every later value; repeated identical searches append their results
\* again (no deduplication).
C33_AppendOnlyNoDedup == [][ListsOnlyGrow /\ ResultsAppendedAgain]_vars

\* two internal searches with the same argument found the same chunks, and
\* the evidence list holds them twice
C33_Witness ==
    /\ Len(state.tool_calls) = 2
    /\ state.tool_calls[1].tool = "search_internal"
    /\ "output" \in DOMAIN state.tool_calls[1]
    /\ state.tool_calls[1].output # << >>
    /\ state.tool_calls[2] = state.tool_calls[1]
    /\ state.internal_context =
           state.tool_calls[1].output \o state.tool_calls[1].output


-----------------------------------------------------------------------------
(* Requests and retries *)

\* a step of reason_node or finish_node
LLMNodeStep == pc \in {"reason", "finish"}

\* C34 as claimed: each reasoning call sends exactly one LLM completion
\* request and the synthesis sends exactly one.
C34_ExactlyOneRequestPerCall ==
    [][LLMNodeStep => llm_requests' = llm_requests + 1]_vars

\* a reasoning or synthesis call sends one request, and none when the client
\* cannot be created; no other step sends a request
OneRequestUnlessNoClient ==
    IF LLMNodeStep
    THEN llm_requests' = IF last_call'.outcome = "raise_client"
                         THEN llm_requests ELSE llm_requests + 1
    ELSE llm_requests' = llm_requests

\* an action node makes one attempt: it appends one record at most
OneAttemptPerAction ==
    pc \in ActionNodes => Len(state'.tool_calls) <= Len(state.tool_calls) + 1

\* an action node runs only for a decision made since the action before it,
\* and that decision selects it
ActionSelectedByFreshDecision ==
    pc \in ActionNodes =>
        /\ Len(state.scratchpad) = ActionInvocations + 1
        /\ pc = "act_internal" => Last(state.scratchpad).action = "search_internal"
        /\ pc = "act_external" => Last(state.scratchpad).action = "web_search"

\* C34: each reasoning call and the synthesis send one LLM completion
\* request each, or none when the LLM client cannot be created; no node
\* retries a failed call, and a failed action is repeated only if a later
\* decision selects that action again.
C34_AtMostOneRequestNoRetry ==
    /\ [](llm_requests <= reason_calls + finish_calls)
    /\ []ActionSelectedByFreshDecision
    /\ [][OneRequestUnlessNoClient /\ OneAttemptPerAction]_vars

\* a web search failed, a later decision selected web_search again, and the
\* synthesis request raised: three reasoning requests and one synthesis
\* request were sent
C34_Witness ==
    /\ pc = "END"
    /\ reason_calls = 3
    /\ llm_requests = 4
    /\ last_call.outcome = "raise"
    /\ Len(state.tool_calls) = 2
    /\ "error" \in DOMAIN state.tool_calls[1]
    /\ state.tool_calls[1].tool = "web_search"
    /\ state.tool_calls[2].tool = "web_search"


-----------------------------------------------------------------------------
(* The persisted index and the corpus it was built from *)

\* the last call was made for a corpus location and obtained an index
ObtainedIndexFor ==
    /\ last_call.node \in {"initialize_vectorstore", "search_internal"}
    /\ last_call.kb_path # None
    /\ last_call.outcome \in {"cached", "loaded", "built"}

\* C35: in a sequential process using the single configured persisted-index
\* directory, every index returned by initialize_vectorstore(kb), and so
\* every chunk returned by search_internal(query, kb), was built from the
\* documents under kb, also when an index for a different corpus location
\* was built and persisted earlier (in this or a previous run).
C35_IndexBuiltFromRequestedCorpus ==
    ObtainedIndexFor => last_call.index.built_from = last_call.kb_path


-----------------------------------------------------------------------------
(* Two callers of initialize_vectorstore in one process: the statements of
   initialize_vectorstore are steps of their own, and the callers' steps
   interleave. pc and last_call hold one entry per caller. *)

Callers == {"c1", "c2"}

\* how many calls each caller makes
MaxCallsPerCaller == 2

\* the callers work on different corpus locations
CallerKb(t) == IF t = "c1" THEN "kbA" ELSE "kbB"

\* the object get_or_create_vectorstore(kb_path) returned: the index, and
\* the location it was obtained for
ObtainedFor(index, kb_path) ==
    [built_from |-> index.built_from, loadable |-> index.loadable,
     model |-> index.model, query_model |-> index.query_model,
     obtained_for |-> kb_path]

\* a caller's frame: its arguments, its local vectorstore, what it returned
Frame(calls, outcome, force_rebuild, vectorstore, index) ==
    [node |-> "initialize_vectorstore", outcome |-> outcome, calls |-> calls,
     force_rebuild |-> force_rebuild, vectorstore |-> vectorstore,
     index |-> index]

RaceInit ==
    /\ state = create_initial_state(<<"q">>, 0, None)
    /\ pc = [t \in Callers |-> "idle"]
    /\ exc = NoExc
    /\ _llm_client = None
    /\ _verbose_mode = FALSE
    /\ _vectorstore_cache = NoIndex
    /\ _cache_kb_path = None
    /\ disk_index = NoIndex
    /\ embedding_model = DefaultEmbeddingModel
    /\ response_text = << >>
    /\ parsed = NotParsed
    /\ reason_calls = 0
    /\ action_calls = [act_internal |-> 0, act_external |-> 0]
    /\ finish_calls = 0
    /\ llm_requests = 0
    /\ last_call = [t \in Callers |-> Frame(0, "none", FALSE, NoIndex, NoIndex)]

RaceFrame ==
    UNCHANGED <<state, exc, _llm_client, _verbose_mode, embedding_model,
                response_text, parsed, reason_calls, action_calls,
                finish_calls, llm_requests>>

\* the caller enters initialize_vectorstore(kb_path, force_rebuild)
CallInitialize(t) ==
    /\ pc[t] = "idle"
    /\ last_call[t].calls < MaxCallsPerCaller
    /\ \E force_rebuild \in BOOLEAN :
           last_call' = [last_call EXCEPT ![t] =
               Frame(@.calls + 1, "running", force_rebuild, NoIndex, NoIndex)]
    /\ pc' = [pc EXCEPT ![t] = "test_cache"]
    /\ UNCHANGED <<_vectorstore_cache, _cache_kb_path, disk_index>>
    /\ RaceFrame

\* the condition of the if statement
TestCache(t) ==
    /\ pc[t] = "test_cache"
    /\ pc' = [pc EXCEPT ![t] =
                 IF /\ ~last_call[t].force_rebuild
                    /\ _vectorstore_cache # NoIndex
                    /\ _cache_kb_path = CallerKb(t)
                 THEN "return_cached" ELSE "get_or_create"]
    /\ UNCHANGED <<last_call, _vectorstore_cache, _cache_kb_path, disk_index>>
    /\ RaceFrame

\* return _vectorstore_cache
ReturnCached(t) ==
    /\ pc[t] = "return_cached"
    /\ last_call' = [last_call EXCEPT ![t].outcome = "cached",
                                      ![t].index = _vectorstore_cache]
    /\ pc' = [pc EXCEPT ![t] = "idle"]
    /\ UNCHANGED <<_vectorstore_cache, _cache_kb_path, disk_index>>
    /\ RaceFrame

\* the local vectorstore after get_or_create_vectorstore did r
Obtained(frame, r, kb_path) ==
    IF r.raised
    THEN [frame EXCEPT !.outcome = "raised"]
    ELSE [frame EXCEPT !.outcome = r.how,
                       !.vectorstore = ObtainedFor(r.index, kb_path)]

\* vectorstore = get_or_create_vectorstore(...), which may raise
GetOrCreate(t) ==
    /\ pc[t] = "get_or_create"
    /\ \E api_ok \in BOOLEAN :
          /\ last_call' = [last_call EXCEPT ![t] =
                 Obtained(@, get_or_create_vectorstore(CallerKb(t),
                     last_call[t].force_rebuild, disk_index, api_ok), CallerKb(t))]
          /\ disk_index' = get_or_create_vectorstore(CallerKb(t),
                     last_call[t].force_rebuild, disk_index, api_ok).disk
    /\ pc' = [pc EXCEPT ![t] =
                 IF last_call'[t].outcome = "raised" THEN "idle" ELSE "assign_cache"]
    /\ UNCHANGED <<_vectorstore_cache, _cache_kb_path>>
    /\ RaceFrame

\* _vectorstore_cache = vectorstore
AssignCache(t) ==
    /\ pc[t] = "assign_cache"
    /\ _vectorstore_cache' = last_call[t].vectorstore
    /\ pc' = [pc EXCEPT ![t] = "assign_path"]
    /\ UNCHANGED <<last_call, _cache_kb_path, disk_index>>
    /\ RaceFrame

\* _cache_kb_path = kb_path; return vectorstore
AssignPath(t) ==
    /\ pc[t] = "assign_path"
    /\ _cache_kb_path' = CallerKb(t)
    /\ last_call' = [last_call EXCEPT ![t].index = last_call[t].vectorstore]
    /\ pc' = [pc EXCEPT ![t] = "idle"]
    /\ UNCHANGED <<_vectorstore_cache, disk_index>>
    /\ RaceFrame

RaceNext ==
    \E t \in Callers :
        \/ CallInitialize(t)
        \/ TestCache(t)
        \/ ReturnCached(t)
        \/ GetOrCreate(t)
        \/ AssignCache(t)
        \/ AssignPath(t)

RaceSpec == RaceInit /\ [][RaceNext]_vars

\* the caller's call has returned an index
Returned(t) ==
    /\ pc[t] = "idle"
    /\ last_call[t].outcome \in {"cached", "loaded", "built"}

\* every call that returned, returned an index obtained for its own kb
ReturnsOwnIndex ==
    \A t \in Callers :
        Returned(t) => last_call[t].index.obtained_for = CallerKb(t)

\* the cached index is the one obtained for the cached location
CacheInStep ==
    _vectorstore_cache # NoIndex =>
        _vectorstore_cache.obtained_for = _cache_kb_path

\* C36: with two callers of initialize_vectorstore interleaved in one
\* process on different corpus locations, under every interleaving each
\* call initialize_vectorstore(kb) returns an index obtained for that same
\* kb, and in every reachable state where the cached index is not None it
\* is the index that was obtained for the cached corpus location.
C36_InterleavedCallersConsistent == ReturnsOwnIndex /\ CacheInStep


-----------------------------------------------------------------------------
(* Decision records and the step counter *)

\* C37: after every reason_node invocation len(scratchpad) = step + 1 and
\* after every action node len(scratchpad) = step; the step field of the
\* i-th decision record (counting from 0) equals i.
C37_DecisionsNumberedByStep ==
    /\ pc = "route" => Len(state.scratchpad) = state.step + 1
    /\ (pc = "reason" /\ ActionInvocations >= 1) =>
           Len(state.scratchpad) = state.step
    /\ \A i \in 1..Len(state.scratchpad) : state.scratchpad[i].step = i - 1

\* the third decision has been recorded, after two actions
C37_Witness ==
    /\ pc = "route"
    /\ state.step = 2
    /\ Len(state.scratchpad) = 3
    /\ state.scratchpad[3].step = 2
    /\ last_call.outcome = "raise"


\* the outputs of the entries of tool_calls for a tool, concatenated in
\* order; entries that record an error have no output
RECURSIVE OutputsOf(_, _)
OutputsOf(tool_calls, tool) ==
    IF tool_calls = << >> THEN << >>
    ELSE (IF Head(tool_calls).tool = tool /\ "output" \in DOMAIN Head(tool_calls)
          THEN Head(tool_calls).output ELSE << >>)
         \o OutputsOf(Tail(tool_calls), tool)

\* C38: in every state of a run internal_context is the in-order
\* concatenation of the outputs of the tool_calls entries for
\* search_internal that carry an output, and external_context is the same
\* for web_search; error entries and skipped actions contribute nothing to
\* either list.
C38_EvidenceIsConcatenatedOutputs ==
    /\ state.internal_context = OutputsOf(state.tool_calls, "search_internal")
    /\ state.external_context = OutputsOf(state.tool_calls, "web_search")

\* a failed web search and then an internal search that found chunks
C38_Witness ==
    /\ state.step = 2
    /\ Len(state.tool_calls) = 2
    /\ state.tool_calls[1].tool = "web_search"
    /\ "error" \in DOMAIN state.tool_calls[1]
    /\ state.tool_calls[2].tool = "search_internal"
    /\ "output" \in DOMAIN state.tool_calls[2]
    /\ state.internal_context # << >>
    /\ state.external_context = << >>


-----------------------------------------------------------------------------
(* The text a search is issued with *)

\* a step of an action node that issues its retrieval or web-search call
IssuesSearch == pc \in ActionNodes /\ last_call'.outcome \in {"ok", "raised"}

\* the call is issued with the action argument of the latest decision,
\* which is never empty
IssuedWithActionArgument ==
    IssuesSearch =>
        /\ last_call'.query = Last(state.scratchpad).action_input
        /\ last_call'.query # << >>

\* a response without an ACTION_INPUT line is parsed to the default
\* argument text, and no response to an empty argument
ArgumentNeverEmpty ==
    \A response \in ReasoningContents :
        /\ _parse_reasoning_response(response).action_input # << >>
        /\ ~HasLine(response, "ACTION_INPUT") =>
               _parse_reasoning_response(response).action_input = DefaultActionInput

\* C39: in a graph run the query text passed to a retrieval or web-search
\* call is always the latest decision's action argument and never the
\* original query as such: when the LLM response has no ACTION_INPUT line,
\* the search is issued with the literal default argument text ('No
\* specific input needed'), because the parser never returns an empty
\* argument.
C39_SearchIssuedWithActionArgument ==
    /\ []ArgumentNeverEmpty
    /\ [](\A i \in 1..Len(state.scratchpad) :
              state.scratchpad[i].action_input # << >>)
    /\ [][IssuedWithActionArgument]_vars

\* a web search was issued with the default argument text, after a response
\* that had no ACTION_INPUT line
C39_Witness ==
    /\ last_call.node = "act_external"
    /\ last_call.outcome = "raised"
    /\ last_call.query = DefaultActionInput
    /\ last_call.query # state.query
    /\ Last(state.tool_calls).input = state.query

=============================================================================
